---- MODULE Spec2Model ----
(***************************************************************************)
(* Receipt line parsing engine of services/receipt_parser.py               *)
(* (EnhancedReceiptParser): the deterministic pattern matchers, the regex  *)
(* fallback, the item enhancer and categorizer, and parse_receipt's stage  *)
(* selection.                                                              *)
(*                                                                         *)
(* Text is a sequence of one-character strings; a receipt is the sequence  *)
(* of its raw lines (the result of str.splitlines).  Python floats are     *)
(* exact rationals [n, d] in lowest terms, so binary rounding is not       *)
(* modelled.  Regular expressions are matched by operators that follow the *)
(* backtracking order of Python's re module.                               *)
(***************************************************************************)
EXTENDS Integers, Sequences, FiniteSets, TLC

VARIABLES
    pc,              \* position inside parse_receipt
    text,            \* ocr_text, as the sequence of its raw lines
    model,           \* self.model is configured
    lines,           \* _deterministic_parse_items: stripped non-empty lines
    idx,             \* index of the next line of the running loop
    items,           \* the items list being built / chosen
    added_keys,      \* _deterministic_parse_items: dedup keys
    prev_non_empty,  \* _deterministic_parse_items: last description slot
    parsing_method,  \* parse_receipt: parsing_method
    ai_response,     \* what the AI suggester answered
    result,          \* the returned envelope
    cat_name,        \* categorizer harness: the name given
    cat_out,         \* categorizer harness: the category returned
    item_aggregation,    \* fallback_parsing: item_aggregation, in insertion order
    reaggregated,        \* the aggregation of the aggregated rows
    ai_breakfast_names,  \* _calculate_complementary_from_items: the names given
    complementary,       \* _calculate_complementary_from_items: the returned counters
    complementary_breakdown,  \* _breakfast_breakdown_from_items: the returned dict
    vendor               \* extract_vendor_info: the returned name and phone

\* the variables of the sales report parser and of the vendor extractor
aux == <<item_aggregation, reaggregated, ai_breakfast_names, complementary,
         complementary_breakdown, vendor>>

vars == <<pc, text, model, lines, idx, items, added_keys, prev_non_empty,
          parsing_method, ai_response, result, cat_name, cat_out, aux>>

\* nothing of the sales report parser or the vendor extractor has run
AuxIdle ==
    /\ item_aggregation = <<>>
    /\ reaggregated = <<>>
    /\ ai_breakfast_names = {}
    /\ complementary = <<>>
    /\ complementary_breakdown = <<>>
    /\ vendor = <<>>

----------------------------------------------------------------------------
(* Characters *)

UC == <<"A","B","C","D","E","F","G","H","I","J","K","L","M",
        "N","O","P","Q","R","S","T","U","V","W","X","Y","Z">>
LC == <<"a","b","c","d","e","f","g","h","i","j","k","l","m",
        "n","o","p","q","r","s","t","u","v","w","x","y","z">>
DG == <<"0","1","2","3","4","5","6","7","8","9">>

Range(f) == {f[k] : k \in DOMAIN f}

\* a local name of the code: In is evaluated with the name bound to value
Bind(value, In(_)) == In(value)

UpperSet == Range(UC)
LowerSet == Range(LC)
DigitSet == Range(DG)
LowerOf == [c \in UpperSet |-> LC[CHOOSE k \in DOMAIN UC : UC[k] = c]]
UpperOf == [c \in LowerSet |-> UC[CHOOSE k \in DOMAIN LC : LC[k] = c]]
ValueOf == [c \in DigitSet |-> (CHOOSE k \in DOMAIN DG : DG[k] = c) - 1]

IsUpper(c) == c \in UpperSet
IsLower(c) == c \in LowerSet
IsAlpha(c) == IsUpper(c) \/ IsLower(c)
IsDigit(c) == c \in DigitSet
IsSpace(c) == c = " "
\* \w of the re module
IsWord(c) == IsAlpha(c) \/ IsDigit(c) \/ c = "_"

DigitVal(c) == ValueOf[c]
ToLower(c) == IF IsUpper(c) THEN LowerOf[c] ELSE c
ToUpper(c) == IF IsLower(c) THEN UpperOf[c] ELSE c

\* str.lower
Lower(s) == [k \in 1..Len(s) |-> ToLower(s[k])]

\* str.title: a letter is upper-cased after a non-letter, lower-cased after a letter
Title(s) ==
    [k \in 1..Len(s) |->
        IF k > 1 /\ IsAlpha(s[k-1]) THEN ToLower(s[k]) ELSE ToUpper(s[k])]

\* s[a..b-1], 1-based, b exclusive
Slice(s, a, b) == IF b <= a THEN <<>> ELSE SubSeq(s, a, b - 1)

\* str.strip(chars)
RECURSIVE LStripIdx(_, _, _)
LStripIdx(s, cs, k) ==
    IF k <= Len(s) /\ s[k] \in cs THEN LStripIdx(s, cs, k + 1) ELSE k
RECURSIVE RStripIdx(_, _, _)
RStripIdx(s, cs, k) ==
    IF k >= 1 /\ s[k] \in cs THEN RStripIdx(s, cs, k - 1) ELSE k
StripChars(s, cs) == Slice(s, LStripIdx(s, cs, 1), RStripIdx(s, cs, Len(s)) + 1)
RStripChars(s, cs) == Slice(s, 1, RStripIdx(s, cs, Len(s)) + 1)
Strip(s) == StripChars(s, {" "})

\* needle occurs in s at position k
MatchAt(s, k, needle) ==
    /\ k >= 1
    /\ k + Len(needle) - 1 <= Len(s)
    /\ \A j \in 1..Len(needle) : s[k + j - 1] = needle[j]
\* Python's  needle in s
Contains(s, needle) ==
    \/ needle = <<>>
    \/ \E k \in 1..(Len(s) - Len(needle) + 1) :
          s[k] = needle[1] /\ \A j \in 2..Len(needle) : s[k + j - 1] = needle[j]

\* str.split(): the whitespace-separated words
RECURSIVE SplitWords(_, _)
SplitWords(s, k) ==
    LET a == LStripIdx(s, {" "}, k) IN
    IF a > Len(s) THEN <<>>
    ELSE LET b == CHOOSE e \in (a + 1)..(Len(s) + 1) :
                     /\ (e = Len(s) + 1 \/ s[e] = " ")
                     /\ \A j \in a..(e - 1) : s[j] /= " "
         IN <<Slice(s, a, b)>> \o SplitWords(s, b)
Split(s) == SplitWords(s, 1)

----------------------------------------------------------------------------
(* Numbers: a Python float is a rational [n, d], d > 0, in lowest terms *)

RECURSIVE GCD(_, _)
GCD(a, b) == IF b = 0 THEN a ELSE GCD(b, a % b)
Abs(a) == IF a < 0 THEN -a ELSE a

Rat(n, d) ==
    LET g == GCD(Abs(n), d) IN
    IF n = 0 THEN [n |-> 0, d |-> 1] ELSE [n |-> n \div g, d |-> d \div g]
RInt(k) == [n |-> k, d |-> 1]
RMul(a, b) == Rat(a.n * b.n, a.d * b.d)
RDiv(a, b) == Rat(a.n * b.d, a.d * b.n)
RAdd(a, b) == Rat(a.n * b.d + b.n * a.d, a.d * b.d)
RSub(a, b) == Rat(a.n * b.d - b.n * a.d, a.d * b.d)
RAbs(a) == [n |-> Abs(a.n), d |-> a.d]
RLe(a, b) == a.n * b.d <= b.n * a.d
RLt(a, b) == a.n * b.d < b.n * a.d
RMax(a, b) == IF RLe(a, b) THEN b ELSE a

\* round(x, 2): x >= 0 to the nearest 1/100.  A tie goes to the even
\* neighbour, which is what the code does when x is a binary fraction; the
\* texts below have no other tie.
Round2(a) ==
    LET num  == a.n * 100
        q    == num \div a.d
        r2   == 2 * (num % a.d)
        up   == r2 > a.d \/ (r2 = a.d /\ q % 2 = 1)
    IN Rat(IF up THEN q + 1 ELSE q, 100)

\* round(x, 4): x >= 0 to the nearest 1/10000 (ties to even)
Round4(a) ==
    LET num  == a.n * 10000
        q    == num \div a.d
        r2   == 2 * (num % a.d)
        up   == r2 > a.d \/ (r2 = a.d /\ q % 2 = 1)
    IN Rat(IF up THEN q + 1 ELSE q, 10000)

RECURSIVE Pow10(_)
Pow10(k) == IF k = 0 THEN 1 ELSE 10 * Pow10(k - 1)
RECURSIVE DigitsVal(_, _)
DigitsVal(s, k) == IF k = 0 THEN 0 ELSE 10 * DigitsVal(s, k - 1) + DigitVal(s[k])

\* float(s) for s = digits [ "." [digits] ]
\* the value of a digit string
IntOf(s) == DigitsVal(s, Len(s))
\* index of the decimal point of s, Len(s) + 1 when it has none
PointIdx(s) ==
    IF \E k \in 1..Len(s) : s[k] = "."
    THEN CHOOSE k \in 1..Len(s) : s[k] = "." ELSE Len(s) + 1

ParseFloat(s) ==
    Bind(Slice(s, 1, PointIdx(s)),                LAMBDA ip :
    Bind(Slice(s, PointIdx(s) + 1, Len(s) + 1),   LAMBDA fp :
       Rat(IntOf(ip) * Pow10(Len(fp)) + IntOf(fp), Pow10(Len(fp)))))

\* s is accepted by float(): digits, optionally a point and more digits
IsNumeric(s) ==
    /\ Len(s) > 0
    /\ \A k \in 1..Len(s) : IsDigit(s[k]) \/ s[k] = "."
    /\ Cardinality({k \in 1..Len(s) : s[k] = "."}) <= 1
    /\ \E k \in 1..Len(s) : IsDigit(s[k])

----------------------------------------------------------------------------
(* Scanning helpers shared by the regular expressions *)

CharAt(s, k) == IF k \in 1..Len(s) THEN s[k] ELSE ""
AtEnd(s, k) == k > Len(s)

\* \s* (greedy): first index >= k that is not whitespace
SkipSpaces(s, k) == LStripIdx(s, {" "}, k)
\* \d* (greedy): first index >= k that is not a digit
DigitsEnd(s, k) == LStripIdx(s, DigitSet, k)

\* \d+(?:\.\d+)?  at k, greedy: the index after the match, 0 when there is
\* no digit at k.  Wherever the patterns below use it, what follows can be
\* neither a digit nor a point, so no shorter match can succeed instead.
NumEnd(s, k) ==
    IF ~IsDigit(CharAt(s, k)) THEN 0
    ELSE LET d == DigitsEnd(s, k) IN
         IF CharAt(s, d) = "." /\ IsDigit(CharAt(s, d + 1))
         THEN DigitsEnd(s, d + 1) ELSE d

\* \d+\.?\d*  at k, greedy (the number shape of _try_parse_line)
LooseNumEnd(s, k) ==
    IF ~IsDigit(CharAt(s, k)) THEN 0
    ELSE LET d == DigitsEnd(s, k) IN
         IF CharAt(s, d) = "." THEN DigitsEnd(s, d + 1) ELSE d

\* [A-Za-z0-9 /&\-\(\)]
NameChar(c) == IsAlpha(c) \/ IsDigit(c) \/ c \in {" ", "/", "&", "-", "(", ")"}
\* [-: ]
SepChar(c) == c \in {"-", ":", " "}

Min(S) == CHOOSE m \in S : \A o \in S : m <= o
NoMatch == [ok |-> FALSE]

----------------------------------------------------------------------------
(* The compiled patterns of _deterministic_parse_items *)

skip_keywords ==
    << <<"t","o","t","a","l">>, <<"s","u","b","t","o","t","a","l">>,
       <<"t","a","x">>, <<"c","a","s","h">>, <<"c","h","a","n","g","e">>,
       <<"t","h","a","n","k">>, <<"b","a","l","a","n","c","e">>,
       <<"d","a","t","e">>, <<"t","i","m","e">>,
       <<"i","n","v","o","i","c","e">>, <<"b","i","l","l">> >>

\* skip_line.search(line):  ^(total|subtotal|...|bill)\b , IGNORECASE
skip_line(line) ==
    LET low == Lower(line) IN
    \E k \in DOMAIN skip_keywords :
        /\ MatchAt(low, 1, skip_keywords[k])
        /\ ~IsWord(CharAt(line, Len(skip_keywords[k]) + 1))

\* currency_cleanup.sub('', raw_line)
currency_cleanup(s) == SelectSeq(s, LAMBDA c : c \notin {"$"})

\* re.sub(r'(\d+)\.(?=\s|$)', r'\1', line): drop a point that follows a
\* digit and is followed by whitespace or the end
RECURSIVE DropLonePoints(_, _)
DropLonePoints(s, k) ==
    IF k > Len(s) THEN <<>>
    ELSE IF /\ s[k] = "." /\ IsDigit(CharAt(s, k - 1))
            /\ (AtEnd(s, k + 1) \/ IsSpace(s[k + 1]))
         THEN DropLonePoints(s, k + 1)
         ELSE <<s[k]>> \o DropLonePoints(s, k + 1)

\* \s*q\s*[xX*]\s*p\s*=\s*t(?:\s|$)  from index k: the common tail of
\* mult_pattern and bare_mult_pattern
MultTail(s, k) ==
    Bind(SkipSpaces(s, k),      LAMBDA qs :
    Bind(NumEnd(s, qs),         LAMBDA qe :
    Bind(SkipSpaces(s, qe),     LAMBDA xs :
    Bind(SkipSpaces(s, xs + 1), LAMBDA ps :
    Bind(NumEnd(s, ps),         LAMBDA pe :
    Bind(SkipSpaces(s, pe),     LAMBDA es :
    Bind(SkipSpaces(s, es + 1), LAMBDA ts :
    Bind(NumEnd(s, ts),         LAMBDA te :
       IF /\ qe /= 0
          /\ CharAt(s, xs) \in {"x", "X", "*"}
          /\ pe /= 0
          /\ CharAt(s, es) = "="
          /\ te /= 0
          /\ (AtEnd(s, te) \/ IsSpace(s[te]))
       THEN [ok |-> TRUE, q |-> Slice(s, qs, qe), p |-> Slice(s, ps, pe),
             t |-> Slice(s, ts, te)]
       ELSE NoMatch))))))))

\* mult_pattern.match(line).  The optional name group is tried first, its
\* lazy body from the shortest name up; then the pattern without a name.
\* the name group ending at e, its separator and the tail: the tail's match
NamedMultAt(line, e) ==
    IF /\ IsAlpha(line[1])
       /\ \A j \in 2..e : NameChar(line[j])
       /\ CharAt(line, SkipSpaces(line, e + 1)) \in {"-", ":"}
    THEN MultTail(line, SkipSpaces(line, e + 1) + 1)
    ELSE NoMatch

mult_pattern(line) ==
    Bind({e \in 1..Len(line) : NamedMultAt(line, e).ok}, LAMBDA ends :
       IF ends /= {}
       THEN Bind(NamedMultAt(line, Min(ends)), LAMBDA m :
                [ok |-> TRUE, hasName |-> TRUE,
                 name |-> Slice(line, 1, Min(ends) + 1),
                 q |-> m.q, p |-> m.p, t |-> m.t])
       ELSE Bind(MultTail(line, 1), LAMBDA m :
                IF m.ok THEN [ok |-> TRUE, hasName |-> FALSE, name |-> <<>>,
                              q |-> m.q, p |-> m.p, t |-> m.t]
                ELSE NoMatch))

\* bare_mult_pattern.match(line):  ^q\s*[xX*]\s*p\s*=\s*t(?:\s|$)
bare_mult_pattern(line) ==
    IF IsDigit(CharAt(line, 1)) THEN MultTail(line, 1) ELSE NoMatch

\* re.search(r'\d+\s*[xX*]\s*\d+', s)
LooksLikeMult(s) ==
    \E k \in 1..Len(s) :
        /\ IsDigit(s[k])
        /\ \E d \in (k + 1)..DigitsEnd(s, k) :
              LET xs == SkipSpaces(s, d) IN
              /\ CharAt(s, xs) \in {"x", "X", "*"}
              /\ IsDigit(CharAt(s, SkipSpaces(s, xs + 1)))

\* first index >= k that is not in [-: ]
SepEnd(s, k) == LStripIdx(s, {"-", ":", " "}, k)

\* dimension_pattern.match(line):
\*   ^a\s*[xX]\s*b\s*[-: ]+?name\s*[-: ]+?price$
\* Both separators are non-empty runs over [-: ]; the lazy name is the
\* shortest one after which a separator and a price reaching the end follow.
dimension_pattern(line) ==
    Bind(DigitsEnd(line, 1),       LAMBDA ae :
    Bind(SkipSpaces(line, ae),     LAMBDA xs :
    Bind(SkipSpaces(line, xs + 1), LAMBDA bs :
    Bind(DigitsEnd(line, bs),      LAMBDA be :
    Bind(SepEnd(line, be),         LAMBDA ns :
    Bind({e \in ns..Len(line) :
             /\ \A j \in (ns + 1)..e : NameChar(line[j])
             /\ SepEnd(line, e + 1) > e + 1
             /\ NumEnd(line, SepEnd(line, e + 1)) = Len(line) + 1},
                                   LAMBDA ends :
       IF /\ IsDigit(CharAt(line, 1))
          /\ CharAt(line, xs) \in {"x", "X"}
          /\ IsDigit(CharAt(line, bs))
          /\ ns > be
          /\ IsAlpha(CharAt(line, ns))
          /\ ends /= {}
       THEN [ok |-> TRUE, a |-> Slice(line, 1, ae), b |-> Slice(line, bs, be),
             name |-> Slice(line, ns, Min(ends) + 1),
             price |-> Slice(line, SepEnd(line, Min(ends) + 1), Len(line) + 1)]
       ELSE NoMatch))))))

\* the unit alternation  kg|kgs?|g|gm|grams?|ml|l|ltr  in trial order
weight_units ==
    << <<"k","g">>, <<"k","g","s">>, <<"g">>, <<"g","m">>,
       <<"g","r","a","m","s">>, <<"g","r","a","m">>, <<"m","l">>,
       <<"l">>, <<"l","t","r">> >>

\* unit alternative followed by \b at index k (IGNORECASE): index after it, or 0.
\* The unit ends in a word character, so \b asks for a non-word character
\* next, and at most one length can have that.
UnitEnd(s, k) ==
    LET low  == Lower(s)
        alts == {a \in DOMAIN weight_units :
                    /\ MatchAt(low, k, weight_units[a])
                    /\ ~IsWord(CharAt(s, k + Len(weight_units[a])))}
    IN IF alts = {} THEN 0 ELSE k + Len(weight_units[Min(alts)])

\* .*?price(?:\s|$)  from index k: start of the first number that is
\* followed by whitespace or the end, 0 when there is none
PriceStart(s, k) ==
    LET starts == {p \in k..Len(s) :
                      /\ NumEnd(s, p) /= 0
                      /\ (AtEnd(s, NumEnd(s, p)) \/ IsSpace(s[NumEnd(s, p)]))}
    IN IF starts = {} THEN 0 ELSE Min(starts)

\* weight_pattern.match(line), IGNORECASE:
\*   ^name\s+qty(unit)\b.*?price(?:\s|$)
\* the rest of the pattern after a name ending at e
WeightAt(line, e) ==
    Bind(SkipSpaces(line, e + 1),                      LAMBDA qs :
    Bind(NumEnd(line, qs),                             LAMBDA qe :
    Bind(IF qe = 0 THEN 0 ELSE UnitEnd(line, qe),      LAMBDA ue :
    Bind(IF ue = 0 THEN 0 ELSE PriceStart(line, ue),   LAMBDA ps :
       IF qs > e + 1 /\ qe /= 0 /\ ue /= 0 /\ ps /= 0
       THEN [ok |-> TRUE, name |-> Slice(line, 1, e + 1),
             qty |-> Slice(line, qs, qe), unit |-> Slice(line, qe, ue),
             price |-> Slice(line, ps, NumEnd(line, ps))]
       ELSE NoMatch))))

weight_pattern(line) ==
    Bind({e \in 1..Len(line) :
             /\ IsAlpha(line[1])
             /\ \A j \in 2..e : NameChar(line[j])
             /\ WeightAt(line, e).ok},                 LAMBDA ends :
       IF ends = {} THEN NoMatch ELSE WeightAt(line, Min(ends)))

\* re.findall(r'(\d+(?:\.\d+)?)', line)
RECURSIVE FindNums(_, _)
FindNums(s, k) ==
    IF k > Len(s) THEN <<>>
    ELSE IF NumEnd(s, k) /= 0
         THEN <<Slice(s, k, NumEnd(s, k))>> \o FindNums(s, NumEnd(s, k))
         ELSE FindNums(s, k + 1)

\* (\d+(?:\.\d+)?\s*){n}$  can match s from index k, with backtracking:
\* a group may stop short inside a run of digits or of spaces
RECURSIVE NumGroups(_, _, _)
NumGroups(s, k, n) ==
    IF n = 0 THEN AtEnd(s, k)
    ELSE /\ IsDigit(CharAt(s, k))
         /\ \E d \in (k + 1)..DigitsEnd(s, k) :
               \/ \E e \in d..SkipSpaces(s, d) : NumGroups(s, e, n - 1)
               \/ /\ d = DigitsEnd(s, k)
                  /\ CharAt(s, d) = "."
                  /\ \E f \in (d + 2)..DigitsEnd(s, d + 1) :
                        \E e \in f..SkipSpaces(s, f) : NumGroups(s, e, n - 1)

\* re.sub(r'(\d+(?:\.\d+)?\s*){3}$', '', line): cut at the leftmost match
StripTrailingNums(line) ==
    LET starts == {k \in 1..Len(line) : NumGroups(line, k, 3)}
    IN IF starts = {} THEN line ELSE Slice(line, 1, Min(starts))

----------------------------------------------------------------------------
(* Item records.  A dict is a function from its keys to tagged values:      *)
(* Str(s) a string, Num(r) a number, Null for None.  Category names are     *)
(* kept as whole strings, they are never examined by character.             *)

Str(s) == [tag |-> "str", val |-> s]
Num(r) == [tag |-> "num", val |-> r]
Null == [tag |-> "null"]
Has(item, k) == k \in DOMAIN item
Put(item, k, v) == [f \in DOMAIN item \cup {k} |-> IF f = k THEN v ELSE item[f]]

\* float(v) does not raise
CanFloat(v) == v.tag = "num" \/ (v.tag = "str" /\ IsNumeric(Strip(v.val)))
\* float(v)
Float(v) == IF v.tag = "num" THEN v.val ELSE ParseFloat(Strip(v.val))
\* str(v) of a string
PyStr(v) == v.val

----------------------------------------------------------------------------
(* Fixed tables of __init__ *)

\* the canonical unit spellings
U_bottle == <<"b","o","t","t","l","e">>
U_box == <<"b","o","x">>
U_can == <<"c","a","n">>
U_dozen == <<"d","o","z","e","n">>
U_gram == <<"g","r","a","m">>
U_kg == <<"k","g">>
U_liter == <<"l","i","t","e","r">>
U_ml == <<"m","l">>
U_packet == <<"p","a","c","k","e","t">>
U_pieces == <<"p","i","e","c","e","s">>

unit_mappings ==
    <<
       [raw |-> <<"k","g">>, unit |-> U_kg],
       [raw |-> <<"k","i","l","o","g","r","a","m">>, unit |-> U_kg],
       [raw |-> <<"k","i","l","o">>, unit |-> U_kg],
       [raw |-> <<"k","i","l","o","s">>, unit |-> U_kg],
       [raw |-> <<"g">>, unit |-> U_gram],
       [raw |-> <<"g","m">>, unit |-> U_gram],
       [raw |-> <<"g","r","a","m">>, unit |-> U_gram],
       [raw |-> <<"g","r","a","m","s">>, unit |-> U_gram],
       [raw |-> <<"l">>, unit |-> U_liter],
       [raw |-> <<"l","t","r">>, unit |-> U_liter],
       [raw |-> <<"l","i","t","e","r">>, unit |-> U_liter],
       [raw |-> <<"l","i","t","r","e">>, unit |-> U_liter],
       [raw |-> <<"l","i","t","r","e","s">>, unit |-> U_liter],
       [raw |-> <<"m","l">>, unit |-> U_ml],
       [raw |-> <<"m","i","l","l","i","l","i","t","e","r">>, unit |-> U_ml],
       [raw |-> <<"m","i","l","l","i","l","i","t","r","e">>, unit |-> U_ml],
       [raw |-> <<"p","c","s">>, unit |-> U_pieces],
       [raw |-> <<"p","c">>, unit |-> U_pieces],
       [raw |-> <<"p","i","e","c","e">>, unit |-> U_pieces],
       [raw |-> <<"p","i","e","c","e","s">>, unit |-> U_pieces],
       [raw |-> <<"d","o","z","e","n">>, unit |-> U_dozen],
       [raw |-> <<"d","z">>, unit |-> U_dozen],
       [raw |-> <<"p","a","c","k","e","t">>, unit |-> U_packet],
       [raw |-> <<"p","a","c","k">>, unit |-> U_packet],
       [raw |-> <<"p","k","t">>, unit |-> U_packet],
       [raw |-> <<"b","o","x">>, unit |-> U_box],
       [raw |-> <<"b","o","x","e","s">>, unit |-> U_box],
       [raw |-> <<"b","o","t","t","l","e">>, unit |-> U_bottle],
       [raw |-> <<"b","t","l">>, unit |-> U_bottle],
       [raw |-> <<"c","a","n">>, unit |-> U_can],
       [raw |-> <<"c","a","n","s">>, unit |-> U_can]
    >>

categories ==
    <<
       [category |-> "meat_seafood", keywords |-> <<
            <<"c","h","i","c","k","e","n">>,
            <<"b","e","e","f">>,
            <<"p","o","r","k">>,
            <<"m","u","t","t","o","n">>,
            <<"f","i","s","h">>,
            <<"l","a","m","b">>,
            <<"t","u","r","k","e","y">>,
            <<"p","r","a","w","n","s">>,
            <<"s","h","r","i","m","p">>,
            <<"c","r","a","b">>,
            <<"s","a","l","m","o","n">>,
            <<"t","u","n","a">>,
            <<"c","o","d">>,
            <<"m","e","a","t">> >>],
       [category |-> "vegetables", keywords |-> <<
            <<"t","o","m","a","t","o">>,
            <<"o","n","i","o","n">>,
            <<"p","o","t","a","t","o">>,
            <<"c","a","r","r","o","t">>,
            <<"c","a","b","b","a","g","e">>,
            <<"s","p","i","n","a","c","h">>,
            <<"b","r","o","c","c","o","l","i">>,
            <<"c","a","u","l","i","f","l","o","w","e","r">>,
            <<"c","u","c","u","m","b","e","r">>,
            <<"p","e","p","p","e","r">>,
            <<"l","e","t","t","u","c","e">>,
            <<"g","a","r","l","i","c">>,
            <<"g","i","n","g","e","r">>,
            <<"b","e","e","t","r","o","o","t">>,
            <<"r","a","d","i","s","h">>,
            <<"c","a","p","s","i","c","u","m">> >>],
       [category |-> "fruits", keywords |-> <<
            <<"a","p","p","l","e">>,
            <<"b","a","n","a","n","a">>,
            <<"o","r","a","n","g","e">>,
            <<"m","a","n","g","o">>,
            <<"g","r","a","p","e">>,
            <<"s","t","r","a","w","b","e","r","r","y">>,
            <<"p","i","n","e","a","p","p","l","e">>,
            <<"w","a","t","e","r","m","e","l","o","n">>,
            <<"m","e","l","o","n">>,
            <<"k","i","w","i">>,
            <<"p","e","a","c","h">>,
            <<"p","l","u","m">> >>],
       [category |-> "dairy_eggs", keywords |-> <<
            <<"m","i","l","k">>,
            <<"c","h","e","e","s","e">>,
            <<"b","u","t","t","e","r">>,
            <<"y","o","g","u","r","t">>,
            <<"c","r","e","a","m">>,
            <<"e","g","g","s">>,
            <<"p","a","n","e","e","r">>,
            <<"c","u","r","d">>,
            <<"g","h","e","e">> >>],
       [category |-> "grains_bakery", keywords |-> <<
            <<"r","i","c","e">>,
            <<"w","h","e","a","t">>,
            <<"f","l","o","u","r">>,
            <<"b","r","e","a","d">>,
            <<"p","a","s","t","a">>,
            <<"n","o","o","d","l","e","s">>,
            <<"o","a","t","s">>,
            <<"q","u","i","n","o","a">>,
            <<"b","a","r","l","e","y">>,
            <<"c","e","r","e","a","l">> >>],
       [category |-> "spices_condiments", keywords |-> <<
            <<"s","a","l","t">>,
            <<"p","e","p","p","e","r">>,
            <<"t","u","r","m","e","r","i","c">>,
            <<"c","h","i","l","i">>,
            <<"c","u","m","i","n">>,
            <<"c","o","r","i","a","n","d","e","r">>,
            <<"g","a","r","a","m"," ","m","a","s","a","l","a">>,
            <<"s","a","u","c","e">>,
            <<"k","e","t","c","h","u","p">>,
            <<"v","i","n","e","g","a","r">>,
            <<"o","i","l">> >>],
       [category |-> "beverages", keywords |-> <<
            <<"j","u","i","c","e">>,
            <<"s","o","d","a">>,
            <<"w","a","t","e","r">>,
            <<"t","e","a">>,
            <<"c","o","f","f","e","e">>,
            <<"b","e","e","r">>,
            <<"w","i","n","e">> >>],
       [category |-> "household", keywords |-> <<
            <<"s","o","a","p">>,
            <<"d","e","t","e","r","g","e","n","t">>,
            <<"s","h","a","m","p","o","o">>,
            <<"t","o","o","t","h","p","a","s","t","e">>,
            <<"t","i","s","s","u","e">>,
            <<"t","o","i","l","e","t"," ","p","a","p","e","r">>,
            <<"c","l","e","a","n","i","n","g">>,
            <<"d","i","s","h","w","a","s","h">>,
            <<"s","c","r","u","b","s">>,
            <<"s","p","o","n","g","e">> >>],
       [category |-> "snacks", keywords |-> <<
            <<"c","h","i","p","s">>,
            <<"b","i","s","c","u","i","t","s">>,
            <<"c","o","o","k","i","e","s">>,
            <<"n","u","t","s">>,
            <<"c","h","o","c","o","l","a","t","e">>,
            <<"c","a","n","d","y">> >>],
       [category |-> "kitchen_items", keywords |-> <<
            <<"s","p","o","o","n","s">>,
            <<"c","u","p","s">>,
            <<"p","l","a","t","e","s">>,
            <<"b","o","w","l","s">>,
            <<"c","o","n","t","a","i","n","e","r","s">>,
            <<"s","h","e","e","t">>,
            <<"f","o","i","l">> >>]
    >>


\* days_map of _get_default_expiry
days_map ==
    << [category |-> "meat_seafood", days |-> 3],
       [category |-> "dairy_eggs", days |-> 7],
       [category |-> "vegetables", days |-> 5],
       [category |-> "fruits", days |-> 7],
       [category |-> "grains_bakery", days |-> 30],
       [category |-> "spices_condiments", days |-> 365],
       [category |-> "beverages", days |-> 60],
       [category |-> "household", days |-> 730],
       [category |-> "snacks", days |-> 90],
       [category |-> "kitchen_items", days |-> 3650],
       [category |-> "other", days |-> 30] >>

\* ocr_corrections of _clean_item_name, in dict order
ocr_corrections ==
    <<
       [wrong |-> <<"L","o","o","s">>, correct |-> <<"L","o","o","s","e">>],
       [wrong |-> <<"L","0","0","5">>, correct |-> <<"L","o","o","s","e">>],
       [wrong |-> <<"L","0","0","S">>, correct |-> <<"L","o","o","s","e">>],
       [wrong |-> <<"L","o","o","5">>, correct |-> <<"L","o","o","s","e">>],
       [wrong |-> <<"L","o","0">>, correct |-> <<"L","o","o","s","e">>],
       [wrong |-> <<"T","o","o","r">>, correct |-> <<"T","u","r">>],
       [wrong |-> <<"T","0","0","R">>, correct |-> <<"T","u","r">>],
       [wrong |-> <<"T","0","O","R">>, correct |-> <<"T","u","r">>],
       [wrong |-> <<"A","j","i","n","o","m","a","t","o">>, correct |-> <<"A","j","i","n","o","m","o","t","o">>]
    >>

----------------------------------------------------------------------------
(* Item cleaning, unit normalisation, categorizer, enhancer *)

\* re.sub(r'\s+', ' ', s): every run of spaces becomes one space
RECURSIVE CollapseSpaces(_, _)
CollapseSpaces(s, k) ==
    IF k > Len(s) THEN <<>>
    ELSE IF s[k] = " " /\ CharAt(s, k - 1) = " " THEN CollapseSpaces(s, k + 1)
         ELSE <<s[k]>> \o CollapseSpaces(s, k + 1)

\* str.replace(old, new) / re.sub of a literal: leftmost non-overlapping
\* occurrences from index k on.  hay is s (or s lower-cased, under
\* IGNORECASE, with old lower-cased too); wb = wrapped in \b...\b (old starts
\* and ends with a word character)
RECURSIVE ReplaceFrom(_, _, _, _, _, _)
ReplaceFrom(s, hay, k, old, new, wb) ==
    IF k > Len(s) THEN <<>>
    ELSE IF /\ MatchAt(hay, k, old)
            /\ wb => (~IsWord(CharAt(s, k - 1)) /\ ~IsWord(CharAt(s, k + Len(old))))
         THEN new \o ReplaceFrom(s, hay, k + Len(old), old, new, wb)
         ELSE <<s[k]>> \o ReplaceFrom(s, hay, k + 1, old, new, wb)
Replace(s, old, new) == ReplaceFrom(s, s, 1, old, new, FALSE)
\* re.sub(r'\b' + re.escape(old) + r'\b', new, s, flags=re.IGNORECASE)
ReplaceWord(s, old, new) == ReplaceFrom(s, Lower(s), 1, Lower(old), new, TRUE)

RECURSIVE ApplyOcrCorrections(_, _)
ApplyOcrCorrections(name, k) ==
    IF k > Len(ocr_corrections) THEN name
    ELSE ApplyOcrCorrections(
             ReplaceWord(name, ocr_corrections[k].wrong, ocr_corrections[k].correct),
             k + 1)

_clean_item_name(name) ==
    LET kept    == SelectSeq(name, LAMBDA c : IsWord(c) \/ IsSpace(c) \/ c \in {"-", "."})
        spaced  == CollapseSpaces(kept, 1)
        titled  == Title(Strip(spaced))
        fixed   == ApplyOcrCorrections(titled, 1)
        r1      == Replace(Replace(Replace(fixed, <<"K","g">>, <<>>),
                                   <<"G","m">>, <<>>), <<"L","t","r">>, <<>>)
        r2      == Replace(Replace(r1, <<"P","c","s">>, <<>>),
                           <<"P","a","c","k">>, <<>>)
    IN Strip(r2)

\* self.unit_mappings.get(u, u)
MapUnit(u) ==
    IF \E k \in DOMAIN unit_mappings : unit_mappings[k].raw = u
    THEN unit_mappings[CHOOSE k \in DOMAIN unit_mappings : unit_mappings[k].raw = u].unit
    ELSE u

_standardize_unit(unit) == MapUnit(Strip(Lower(unit)))

\* for category, keywords in self.categories.items(): the first category, from
\* the c-th on, with a keyword that passes the test of the pass (direct
\* containment, or the fuzzy test on the words of keyword and name)
RECURSIVE FirstCategory(_, _, _, _)
FirstCategory(item_lower, item_parts, fuzzy, c) ==
    IF c > Len(categories) THEN ""
    ELSE IF \E k \in DOMAIN categories[c].keywords :
                LET keyword == categories[c].keywords[k] IN
                IF fuzzy
                THEN \/ \E part \in Range(Split(keyword)) : Contains(item_lower, part)
                     \/ \E part \in item_parts : Contains(keyword, part)
                ELSE Contains(item_lower, keyword) \/ Contains(keyword, item_lower)
         THEN categories[c].category
         ELSE FirstCategory(item_lower, item_parts, fuzzy, c + 1)

\* the first category, from the c-th on, with a keyword that passes the
\* direct or the fuzzy test: the two passes run as one
RECURSIVE FirstCategoryEitherTest(_, _, _)
FirstCategoryEitherTest(item_lower, item_parts, c) ==
    IF c > Len(categories) THEN "other"
    ELSE IF \E k \in DOMAIN categories[c].keywords :
                \/ Contains(item_lower, categories[c].keywords[k])
                \/ Contains(categories[c].keywords[k], item_lower)
                \/ \E part \in Range(Split(categories[c].keywords[k])) :
                      Contains(item_lower, part)
                \/ \E part \in item_parts : Contains(categories[c].keywords[k], part)
         THEN categories[c].category
         ELSE FirstCategoryEitherTest(item_lower, item_parts, c + 1)
CategorizeOnePass(item_name) ==
    FirstCategoryEitherTest(Lower(item_name), Range(Split(Lower(item_name))), 1)

\* a categorizer that forgets the final  return 'other'
CategorizeNoDefault(item_name) ==
    LET item_lower == Lower(item_name)
        item_parts == Range(Split(item_lower))
        direct == FirstCategory(item_lower, item_parts, FALSE, 1)
    IN IF direct /= "" THEN direct
       ELSE FirstCategory(item_lower, item_parts, TRUE, 1)

_categorize_item(item_name) ==
    LET item_lower == Lower(item_name)
        item_parts == Range(Split(item_lower))
        direct == FirstCategory(item_lower, item_parts, FALSE, 1)
        fuzzy  == FirstCategory(item_lower, item_parts, TRUE, 1)
    IN IF direct /= "" THEN direct
       ELSE IF fuzzy /= "" THEN fuzzy
       ELSE "other"

\* _get_default_expiry: the date is kept as its distance from now, in days
_get_default_expiry(category) ==
    LET known == {k \in DOMAIN days_map :
                     category.tag = "str" /\ days_map[k].category = category.val}
    IN [tag |-> "date",
        days |-> IF known = {} THEN 30 ELSE days_map[CHOOSE k \in known : TRUE].days]

\* _enhance_item raises (float() of a value that is not a number)
EnhanceRaises(item) ==
    Has(item, "total_price") /\ item["total_price"] /= Null
        /\ ~CanFloat(item["total_price"])

_enhance_item(item) ==
    Bind(_clean_item_name(PyStr(item["item_name"])),   LAMBDA name :
    Bind(Float(item["quantity"]),                      LAMBDA qty :
    Bind(Float(item["unit_price"]),                    LAMBDA price :
    Bind(Put(Put(Put(item, "item_name", Str(name)), "quantity", Num(qty)),
             "unit_price", Num(price)),                LAMBDA i1 :
    Bind(Put(i1, "total_price",
             IF ~Has(item, "total_price") \/ item["total_price"] = Null
             THEN Num(RMul(qty, price))
             ELSE Num(Float(item["total_price"]))),    LAMBDA i2 :
    Bind(Put(i2, "unit",
             Str(_standardize_unit(IF Has(item, "unit") THEN PyStr(item["unit"])
                                   ELSE U_pieces))),   LAMBDA i3 :
    Bind(IF ~Has(i3, "category")
         THEN Put(i3, "category", Str(_categorize_item(name))) ELSE i3,
                                                       LAMBDA i4 :
    Bind(IF ~Has(i4, "confidence")
         THEN Put(i4, "confidence", Num(Rat(8, 10))) ELSE i4,
                                                       LAMBDA i5 :
       Put(i5, "estimated_expiry", _get_default_expiry(i5["category"]))))))))))

----------------------------------------------------------------------------
(* _deterministic_parse_items: the body of the loop over the lines *)

Unknown_Item == <<"U","n","k","n","o","w","n"," ","I","t","e","m">>

\* _approx_equal(a, b) with rel = 0.02, abs_tol = 0.5, for a, b >= 0
_approx_equal(a, b) ==
    LET diff == RAbs(RSub(a, b)) IN
    IF a.n = 0 \/ b.n = 0 THEN RLe(diff, Rat(1, 2))
    ELSE RLe(diff, RMul(RMax(a, b), Rat(2, 100))) \/ RLe(diff, Rat(1, 2))

\* the item dict literal of each branch
NewItem(name, quantity, unit, unit_price, total, confidence) ==
    [item_name |-> Str(name), quantity |-> Num(quantity), unit |-> Str(unit),
     unit_price |-> Num(unit_price), total_price |-> Num(total),
     confidence |-> Num(confidence)]

\* key = (item['item_name'].lower(), item['quantity'], item['unit_price'])
ItemKey(item) ==
    <<Lower(item["item_name"].val), item["quantity"].val, item["unit_price"].val>>
\* the weight branch rounds the unit price of its key
ItemKeyRounded(item) ==
    <<Lower(item["item_name"].val), item["quantity"].val,
      Round4(item["unit_price"].val)>>

\* lines = [l.strip() for l in raw_lines if l and l.strip()]
StrippedLines(raw_lines) ==
    LET stripped == [k \in DOMAIN raw_lines |-> Strip(raw_lines[k])]
    IN SelectSeq(stripped, LAMBDA l : l /= <<>>)

\* line = currency_cleanup.sub('', raw_line).strip(), lone points dropped
NormalizeLine(raw_line) == DropLonePoints(Strip(currency_cleanup(raw_line)), 1)

\* the pending description: None is the empty text (both are falsy)
None == <<>>

\* what one pass of the loop body does to (items, added_keys, prev_non_empty):
\* emit is the item appended (after _enhance_item), as a sequence of 0 or 1
Outcome(emit, keys, prev) == [emit |-> emit, keys |-> keys, prev |-> prev]

\* if key not in added_keys: items.append(self._enhance_item(item)); add key
AddItem(item, key, keys, prev) ==
    IF key \in keys THEN Outcome(<<>>, keys, prev)
    ELSE Outcome(<<_enhance_item(item)>>, keys \cup {key}, prev)

\* a multiplication branch that reads the two operands the wrong way round
MultBranchSwapped(m, raw_line, keys) ==
    Bind(NewItem(Strip(IF m.hasName THEN m.name ELSE Unknown_Item),
                 ParseFloat(m.p), U_pieces, ParseFloat(m.q),
                 ParseFloat(m.t), Rat(95, 100)),       LAMBDA item :
       AddItem(item, ItemKey(item), keys, raw_line))

\* name = (m.group('name') or 'Unknown Item').strip()
MultBranch(m, raw_line, keys) ==
    Bind(NewItem(Strip(IF m.hasName THEN m.name ELSE Unknown_Item),
                 ParseFloat(m.q), U_pieces, ParseFloat(m.p),
                 ParseFloat(m.t), Rat(95, 100)),       LAMBDA item :
       AddItem(item, ItemKey(item), keys, raw_line))

BareMultBranch(m, raw_line, keys, prev) ==
    Bind(NewItem(StripChars(Strip(prev), {"-", ":"}), ParseFloat(m.q),
                 U_pieces, ParseFloat(m.p), ParseFloat(m.t), Rat(9, 10)),
                                                       LAMBDA item :
       AddItem(item, ItemKey(item), keys, raw_line))

\* str(int(float(s))) of a digit string: its leading zeros go
IntText(s) ==
    IF LStripIdx(s, {"0"}, 1) > Len(s) THEN <<"0">>
    ELSE Slice(s, LStripIdx(s, {"0"}, 1), Len(s) + 1)

\* f"{name.strip()} ({a}x{b})"
DimensionName(name, a, b) ==
    Strip(name) \o <<" ", "(">> \o a \o <<"x">> \o b \o <<")">>

DimensionBranch(m, raw_line, keys) ==
    Bind(RMul(ParseFloat(m.a), ParseFloat(m.b)),       LAMBDA quantity :
    Bind(ParseFloat(m.price),                          LAMBDA price :
    Bind(NewItem(DimensionName(m.name, IntText(m.a), IntText(m.b)),
                 quantity, U_pieces,
                 IF quantity.n > 0 THEN RDiv(price, quantity) ELSE price,
                 price, Rat(9, 10)),                   LAMBDA item :
       AddItem(item, ItemKey(item), keys, raw_line))))

\* unit_raw = m.group('unit').lower().rstrip('s'), then unit_mappings.get
WeightBranch(m, raw_line, keys) ==
    Bind(ParseFloat(m.qty),                            LAMBDA qty :
    Bind(ParseFloat(m.price),                          LAMBDA price :
    Bind(NewItem(Strip(m.name), qty,
                 MapUnit(RStripChars(Lower(m.unit), {"s"})),
                 IF qty.n > 0 THEN RDiv(price, qty) ELSE price,
                 price, Rat(85, 100)),                 LAMBDA item :
       AddItem(item, ItemKeyRounded(item), keys, raw_line))))

\* a heuristic that takes the smaller of a and b for the quantity
TripletBIsQtySmaller(a, b) == RLt(b, a)

\* a <= 20 and (a < b or b > 20): a is the quantity; else b <= 20: b is;
\* else a is
TripletBIsQty(a, b) ==
    /\ ~(RLe(a, RInt(20)) /\ (RLt(a, b) \/ ~RLe(b, RInt(20))))
    /\ RLe(b, RInt(20))

\* the item of the generic branch from the description and the three numbers
TripletItem(desc, a, b, c) ==
    NewItem(desc, IF TripletBIsQty(a, b) THEN b ELSE a, U_pieces,
            IF TripletBIsQty(a, b) THEN a ELSE b, c, Rat(8, 10))

\* a generic branch that forgets to compare the product with the total
TripletBranchNoProductCheck(line, keys, prev) ==
    Bind(FindNums(line, 1),                            LAMBDA nums :
    Bind(Len(nums),                                    LAMBDA n :
    Bind(ParseFloat(nums[n - 2]),                      LAMBDA a :
    Bind(ParseFloat(nums[n - 1]),                      LAMBDA b :
    Bind(ParseFloat(nums[n]),                          LAMBDA c :
    Bind(StripChars(StripTrailingNums(line), {"-", ":", " "}),
                                                       LAMBDA desc :
    Bind(TripletItem(desc, a, b, c),                   LAMBDA item :
       IF n < 3 THEN Outcome(<<>>, keys, prev)
       ELSE IF desc = <<>> \/ skip_line(Lower(desc)) THEN Outcome(<<>>, keys, prev)
       ELSE IF /\ ItemKey(item) \notin keys
               /\ item["quantity"].val.n > 0 /\ item["unit_price"].val.n > 0
            THEN Outcome(<<_enhance_item(item)>>, keys \cup {ItemKey(item)}, prev)
            ELSE Outcome(<<>>, keys, prev))))))))

\* the generic branch: the last three numbers of the line
TripletBranch(line, keys, prev) ==
    Bind(FindNums(line, 1),                            LAMBDA nums :
    Bind(Len(nums),                                    LAMBDA n :
    Bind(ParseFloat(nums[n - 2]),                      LAMBDA a :
    Bind(ParseFloat(nums[n - 1]),                      LAMBDA b :
    Bind(ParseFloat(nums[n]),                          LAMBDA c :
    Bind(StripChars(StripTrailingNums(line), {"-", ":", " "}),
                                                       LAMBDA desc :
    Bind(TripletItem(desc, a, b, c),                   LAMBDA item :
       IF n < 3 THEN Outcome(<<>>, keys, prev)
       ELSE IF ~_approx_equal(RMul(a, b), c) THEN Outcome(<<>>, keys, prev)
       ELSE IF desc = <<>> \/ skip_line(Lower(desc)) THEN Outcome(<<>>, keys, prev)
       ELSE IF /\ ItemKey(item) \notin keys
               /\ item["quantity"].val.n > 0 /\ item["unit_price"].val.n > 0
            THEN Outcome(<<_enhance_item(item)>>, keys \cup {ItemKey(item)}, prev)
            ELSE Outcome(<<>>, keys, prev))))))))

\* an iteration that goes on to the later patterns when the pattern that
\* matched has appended nothing
ParseLineFallsThrough(raw_line, keys, prev) ==
    Bind(NormalizeLine(raw_line),   LAMBDA line :
    Bind(mult_pattern(line),        LAMBDA mult :
    Bind(dimension_pattern(line),   LAMBDA dim :
    Bind(weight_pattern(line),      LAMBDA wt :
       IF Len(line) < 3 THEN Outcome(<<>>, keys, prev)
       ELSE IF skip_line(line) THEN Outcome(<<>>, keys, prev)
       ELSE IF mult.ok /\ MultBranch(mult, raw_line, keys).emit /= <<>>
            THEN MultBranch(mult, raw_line, keys)
       ELSE IF dim.ok /\ DimensionBranch(dim, raw_line, keys).emit /= <<>>
            THEN DimensionBranch(dim, raw_line, keys)
       ELSE IF wt.ok /\ WeightBranch(wt, raw_line, keys).emit /= <<>>
            THEN WeightBranch(wt, raw_line, keys)
       ELSE TripletBranch(line, keys, prev)))))

\* one iteration of  for raw_line in lines
ParseLine(raw_line, keys, prev) ==
    Bind(NormalizeLine(raw_line),   LAMBDA line :
    Bind(mult_pattern(line),        LAMBDA mult :
    Bind(bare_mult_pattern(line),   LAMBDA bare :
    Bind(dimension_pattern(line),   LAMBDA dim :
    Bind(weight_pattern(line),      LAMBDA wt :
       IF Len(line) < 3 THEN Outcome(<<>>, keys, prev)
       ELSE IF skip_line(line) THEN Outcome(<<>>, keys, prev)
       ELSE IF mult.ok THEN MultBranch(mult, raw_line, keys)
       ELSE IF /\ bare.ok
               /\ prev /= None
               /\ \E k \in DOMAIN prev : IsAlpha(prev[k])
               /\ ~LooksLikeMult(prev)
            THEN BareMultBranch(bare, raw_line, keys, prev)
       ELSE IF dim.ok THEN DimensionBranch(dim, raw_line, keys)
       ELSE IF wt.ok THEN WeightBranch(wt, raw_line, keys)
       ELSE TripletBranch(line, keys, prev))))))

----------------------------------------------------------------------------
(* _enhanced_fallback_parse and _try_parse_line.  The patterns are searched  *)
(* (re.search), so a match may start anywhere; the leftmost start wins and   *)
(* the lazy name is the shortest.  Of the two dashes the patterns accept,    *)
(* the texts here only have the ASCII one.                                   *)

fallback_skip_words ==
    << <<"t","o","t","a","l">>, <<"t","a","x">>, <<"b","i","l","l">>,
       <<"d","a","t","e">>, <<"s","t","o","r","e">>, <<"t","h","a","n","k">>,
       <<"s","u","b","t","o","t","a","l">> >>

\* \d{lo,hi} at k followed by the rest R: some count of digits in lo..hi
DigitsThen(s, k, lo, hi, R(_)) ==
    \E c \in lo..hi : (\A j \in k..(k + c - 1) : IsDigit(CharAt(s, j))) /\ R(k + c)

\* any(re.match(pattern, line, re.IGNORECASE) for pattern in skip_patterns)
FallbackSkips(line) ==
    \/ LET low == Lower(line) IN
       \E k \in DOMAIN fallback_skip_words : MatchAt(low, 1, fallback_skip_words[k])
    \/ DigitsThen(line, 1, 1, 2, LAMBDA a : CharAt(line, a) = "/" /\
         DigitsThen(line, a + 1, 1, 2, LAMBDA b : CharAt(line, b) = "/" /\
           DigitsThen(line, b + 1, 2, 4, LAMBDA c : TRUE)))
    \/ \A j \in 1..3 : CharAt(line, j) \in {"_", "-", "="}
    \/ LET k == IF CharAt(line, 1) = "$" THEN 2 ELSE 1 IN
       LooseNumEnd(line, k) = Len(line) + 1

\* [A-Za-z\s]
FallbackNameChar(c) == IsAlpha(c) \/ IsSpace(c)

\* name\s*-  with the name starting at st and ending at e: index after the dash, or 0
AfterNameDash(s, st, e) ==
    IF /\ e >= st
       /\ \A j \in st..e : FallbackNameChar(CharAt(s, j))
       /\ CharAt(s, SkipSpaces(s, e + 1)) = "-"
    THEN SkipSpaces(s, e + 1) + 1 ELSE 0

\* \s*num\s*c  from k, c one of the characters cs: [ok, num, next]
NumThen(s, k, cs) ==
    Bind(SkipSpaces(s, k),     LAMBDA ns :
    Bind(LooseNumEnd(s, ns),   LAMBDA ne :
    Bind(SkipSpaces(s, ne),    LAMBDA cp :
       IF ne /= 0 /\ Lower(<<CharAt(s, cp)>>)[1] \in cs
       THEN [ok |-> TRUE, num |-> Slice(s, ns, ne), next |-> cp + 1]
       ELSE NoMatch)))
\* \s*num  from k, nothing required after it
NumLast(s, k) ==
    Bind(SkipSpaces(s, k),     LAMBDA ns :
    Bind(LooseNumEnd(s, ns),   LAMBDA ne :
       IF ne /= 0 THEN [ok |-> TRUE, num |-> Slice(s, ns, ne), next |-> ne]
       ELSE NoMatch))

\* the tail's match after the name s[st..e] and its dash
NamedAt(s, st, e, TailAt(_)) ==
    IF AfterNameDash(s, st, e) /= 0 THEN TailAt(AfterNameDash(s, st, e))
    ELSE NoMatch

\* the leftmost start and shortest name for which TailAt(index after the dash)
\* matches: [ok, name, m] with m the tail's match
SearchNamed(s, TailAt(_)) ==
    Bind({st \in 1..Len(s) : \E e \in st..Len(s) : NamedAt(s, st, e, TailAt).ok},
                                                       LAMBDA starts :
       IF starts = {} THEN NoMatch
       ELSE Bind(Min(starts),                          LAMBDA st :
            Bind(Min({f \in st..Len(s) : NamedAt(s, st, f, TailAt).ok}),
                                                       LAMBDA e :
               [ok |-> TRUE, name |-> Slice(s, st, e + 1),
                m |-> NamedAt(s, st, e, TailAt)])))

\* Pattern 1 tail:  \s*q\s*x\s*p\s*=\s*t
FallbackMultTail(s, k) ==
    Bind(NumThen(s, k, {"x"}),                                  LAMBDA q :
    Bind(IF q.ok THEN NumThen(s, q.next, {"="}) ELSE NoMatch,   LAMBDA p :
    Bind(IF p.ok THEN NumLast(s, p.next) ELSE NoMatch,          LAMBDA t :
       IF t.ok THEN [ok |-> TRUE, q |-> q.num, p |-> p.num, t |-> t.num]
       ELSE NoMatch)))

fallback_units ==
    << <<"k","g">>, <<"g">>, <<"g","m">>, <<"l">>, <<"l","t","r">>, <<"m","l">> >>

\* Pattern 2 tail:  \s*q\s*(kg|g|gm|l|ltr|ml)\s*-\s*p , first alternative
\* in order after which the rest matches
\* the a-th unit at us, then \s*-\s*p
FallbackUnitRest(s, us, a) ==
    Bind(us + Len(fallback_units[a]),   LAMBDA ue :
       IF /\ MatchAt(Lower(s), us, fallback_units[a])
          /\ CharAt(s, SkipSpaces(s, ue)) = "-"
       THEN NumLast(s, SkipSpaces(s, ue) + 1) ELSE NoMatch)

FallbackWeightTail(s, k) ==
    Bind(SkipSpaces(s, k),      LAMBDA qs :
    Bind(LooseNumEnd(s, qs),    LAMBDA qe :
    Bind(SkipSpaces(s, qe),     LAMBDA us :
    Bind({a \in DOMAIN fallback_units : qe /= 0 /\ FallbackUnitRest(s, us, a).ok},
                                LAMBDA alts :
       IF alts = {} THEN NoMatch
       ELSE [ok |-> TRUE, q |-> Slice(s, qs, qe),
             unit |-> Slice(s, us, us + Len(fallback_units[Min(alts)])),
             p |-> FallbackUnitRest(s, us, Min(alts)).num]))))

\* Pattern 3 tail:  \s*q\s*-\s*p
FallbackSimpleTail(s, k) ==
    Bind(NumThen(s, k, {"-"}),                             LAMBDA q :
    Bind(IF q.ok THEN NumLast(s, q.next) ELSE NoMatch,     LAMBDA p :
       IF p.ok THEN [ok |-> TRUE, q |-> q.num, p |-> p.num] ELSE NoMatch))

\* Pattern 4:  (\d+)\s*x\s*(\d+)\s*-\s*name\s*-\s*price , searched
\* the price after the name s[ns..e] and its dash
DimensionPriceAt(s, ns, e) ==
    IF AfterNameDash(s, ns, e) /= 0 THEN NumLast(s, AfterNameDash(s, ns, e))
    ELSE NoMatch

\* the pattern matched from index st
FallbackDimensionAt(s, st) ==
    Bind(DigitsEnd(s, st),         LAMBDA ae :
    Bind(SkipSpaces(s, ae),        LAMBDA xs :
    Bind(SkipSpaces(s, xs + 1),    LAMBDA bs :
    Bind(DigitsEnd(s, bs),         LAMBDA be :
    Bind(SkipSpaces(s, be),        LAMBDA ds :
    Bind({e \in (ds + 1)..Len(s) : DimensionPriceAt(s, ds + 1, e).ok},
                                   LAMBDA ends :
       IF /\ IsDigit(CharAt(s, st))
          /\ CharAt(s, xs) \in {"x", "X"}
          /\ IsDigit(CharAt(s, bs))
          /\ CharAt(s, ds) = "-"
          /\ ends /= {}
       THEN [ok |-> TRUE, a |-> Slice(s, st, ae), b |-> Slice(s, bs, be),
             name |-> Slice(s, ds + 1, Min(ends) + 1),
             price |-> DimensionPriceAt(s, ds + 1, Min(ends)).num]
       ELSE NoMatch))))))

FallbackDimension(s) ==
    Bind({st \in 1..Len(s) : FallbackDimensionAt(s, st).ok},   LAMBDA starts :
       IF starts = {} THEN NoMatch ELSE FallbackDimensionAt(s, Min(starts)))

\* _try_parse_line(line): the item as a sequence of 0 (None) or 1 dict
\* the dict of pattern 4
FallbackDimensionItem(m) ==
    Bind(RMul(ParseFloat(m.a), ParseFloat(m.b)),   LAMBDA quantity :
    Bind(ParseFloat(m.price),                      LAMBDA price :
       NewItem(DimensionName(m.name, m.a, m.b), quantity, U_pieces,
               IF quantity.n > 0 THEN RDiv(price, quantity) ELSE price,
               price, Rat(8, 10))))

_try_parse_line(line) ==
    Bind(SearchNamed(line, LAMBDA k : FallbackMultTail(line, k)),     LAMBDA p1 :
    Bind(SearchNamed(line, LAMBDA k : FallbackWeightTail(line, k)),   LAMBDA p2 :
    Bind(SearchNamed(line, LAMBDA k : FallbackSimpleTail(line, k)),   LAMBDA p3 :
    Bind(FallbackDimension(line),                                     LAMBDA p4 :
       IF p1.ok
       THEN <<NewItem(Strip(p1.name), ParseFloat(p1.m.q), U_pieces,
                      ParseFloat(p1.m.p), ParseFloat(p1.m.t), Rat(9, 10))>>
       ELSE IF p2.ok
       THEN <<NewItem(Strip(p2.name), ParseFloat(p2.m.q), Lower(p2.m.unit),
                      ParseFloat(p2.m.p),
                      RMul(ParseFloat(p2.m.q), ParseFloat(p2.m.p)), Rat(85, 100))>>
       ELSE IF p3.ok
       THEN <<NewItem(Strip(p3.name), ParseFloat(p3.m.q), U_pieces,
                      ParseFloat(p3.m.p),
                      RMul(ParseFloat(p3.m.q), ParseFloat(p3.m.p)), Rat(7, 10))>>
       ELSE IF p4.ok
       THEN <<FallbackDimensionItem(p4)>>
       ELSE <<>>))))

\* one iteration of _enhanced_fallback_parse's loop: the items it appends
FallbackLine(raw) ==
    LET line == Strip(raw) IN
    IF Len(line) < 3 THEN <<>>
    ELSE IF FallbackSkips(line) THEN <<>>
    ELSE _try_parse_line(line)

\* _enhanced_fallback_parse(ocr_text), whole
RECURSIVE FallbackFrom(_, _)
FallbackFrom(raw_lines, k) ==
    IF k > Len(raw_lines) THEN <<>>
    ELSE FallbackLine(raw_lines[k]) \o FallbackFrom(raw_lines, k + 1)
_enhanced_fallback_parse(raw_lines) == FallbackFrom(raw_lines, 1)

----------------------------------------------------------------------------
(* parse_with_gemini: the AI suggester's answer is an input.  It is either   *)
(* [raises |-> TRUE] (the call, or json.loads of its text, raised) or the   *)
(* decoded list of candidate dicts.                                          *)

required_fields == <<"item_name", "quantity", "unit", "unit_price">>

\* a validator that forgets the test of the name
ValidateNoNameTest(item) ==
    /\ \A k \in DOMAIN required_fields :
          Has(item, required_fields[k]) /\ item[required_fields[k]] /= Null
    /\ CanFloat(item["quantity"])
    /\ CanFloat(item["unit_price"])

_validate_enhanced_item(item) ==
    /\ \A k \in DOMAIN required_fields :
          Has(item, required_fields[k]) /\ item[required_fields[k]] /= Null
    /\ CanFloat(item["quantity"])
    /\ CanFloat(item["unit_price"])
    /\ Strip(PyStr(item["item_name"])) /= <<>>

\* validated_items of the loop over the candidates
RECURSIVE ValidatedFrom(_, _)
ValidatedFrom(cands, k) ==
    IF k > Len(cands) THEN <<>>
    ELSE (IF _validate_enhanced_item(cands[k]) THEN <<_enhance_item(cands[k])>>
          ELSE <<>>) \o ValidatedFrom(cands, k + 1)

\* an exception leaves the try block: the call raised, or _enhance_item did
\* on a candidate that passed the validator
GeminiRaises(response) ==
    \/ response.raises
    \/ \E k \in DOMAIN response.candidates :
          /\ _validate_enhanced_item(response.candidates[k])
          /\ EnhanceRaises(response.candidates[k])

\* an AI stage that, when its try block fails, hands back the raw candidates
GeminiKeepsRawOnFailure(raw_lines, response) ==
    IF GeminiRaises(response) THEN response.candidates
    ELSE ValidatedFrom(response.candidates, 1)

parse_with_gemini(raw_lines, response) ==
    IF GeminiRaises(response) THEN _enhanced_fallback_parse(raw_lines)
    ELSE ValidatedFrom(response.candidates, 1)

----------------------------------------------------------------------------
(* Texts *)

\* the largest number of lines of a receipt
MaxLines == 2
\* the largest number of candidates in one AI answer
MaxCandidates == 2

W_Chicken == <<"C","h","i","c","k","e","n">>
W_chicken == <<"c","h","i","c","k","e","n">>
W_ChickenSlash == <<"C","h","i","c","k","e","n","/">>
W_GST == <<"G","S","T">>
W_Total == <<"T","o","t","a","l">>
W_Parel_Sheet == <<"P","a","r","e","l"," ","S","h","e","e","t">>
W_Rice == <<"R","i","c","e">>
W_Milk == <<"M","i","l","k">>
W_Sugar == <<"S","u","g","a","r">>
W_Xyz == <<"X","y","z">>
W_Fresh == <<"F","r","e","s","h">>
W_Oil == <<"o","i","l">>
W_Q7 == <<"Q","7">>
W_Ice == <<"I","c","e">>
W_Tea == <<"T","e","a">>

MultLine(n, q, p, t) ==
    n \o <<" ", "-", " ">> \o q \o <<" ", "x", " ">> \o p \o <<" ", "=", " ">> \o t
BareMultLine(q, p, t) ==
    q \o <<" ", "x", " ">> \o p \o <<" ", "=", " ">> \o t
DimensionLine(a, b, n, price) ==
    a \o <<"x">> \o b \o <<" ", "-", " ">> \o n \o <<" ", "-", " ">> \o price
WeightLine(n, qty, unit, filler, price) ==
    n \o <<" ">> \o qty \o unit \o filler \o price
TripletLine(n, a, b, c) == n \o <<" ">> \o a \o <<" ">> \o b \o <<" ">> \o c
DashLine(n, a, b, c) ==
    n \o <<" ", "-", " ">> \o a \o <<" ", "-", " ">> \o b \o <<" ", "-", " ">> \o c

\* all receipts of at most MaxLines lines over a set of lines
RECURSIVE TextsOfLen(_, _)
TextsOfLen(L, k) ==
    IF k = 0 THEN {<<>>}
    ELSE {Append(t, l) : t \in TextsOfLen(L, k - 1), l \in L}
Texts(L) == UNION {TextsOfLen(L, k) : k \in 0..MaxLines}

Blank == <<" ", " ", " ">>

\* a mixed receipt vocabulary
ReceiptLines ==
    { MultLine(W_Chicken, <<"2">>, <<"1","4","0">>, <<"2","8","0">>),
      MultLine(W_ChickenSlash, <<"2">>, <<"1","4","0">>, <<"2","8","0">>),
      MultLine(W_Chicken, <<"2">>, <<"1","4","0">>, <<"9","9","9">>),
      BareMultLine(<<"2">>, <<"1","4","0">>, <<"2","8","0">>),
      W_Chicken,
      DimensionLine(<<"5">>, <<"6">>, W_Parel_Sheet, <<"1","8","0">>),
      TripletLine(W_Milk, <<"2">>, <<"3">>, <<"6",".","4">>),
      TripletLine(<<"(">> \o W_Total \o <<")">>, <<"2">>, <<"3">>, <<"6">>),
      TripletLine(W_Sugar, <<"2">>, <<"4","0">>, <<"1","0","0">>),
      DashLine(W_Sugar, <<"2">>, <<"4","0">>, <<"1","0","0">>),
      Blank }

----------------------------------------------------------------------------
(* AI answers *)

AiCandidates ==
    { [item_name |-> Str(W_Milk), quantity |-> Num(RInt(2)), unit |-> Str(<<"p","c","s">>),
       unit_price |-> Num(RInt(3))],
      [item_name |-> Str(W_Rice), quantity |-> Str(<<"2">>), unit |-> Str(<<"K","G">>),
       unit_price |-> Num(RInt(45)), total_price |-> Num(RInt(90)),
       category |-> Str("grains_bakery"), confidence |-> Num(Rat(9, 10))],
      [item_name |-> Str(W_Sugar), quantity |-> Num(RInt(1)), unit |-> Str(<<"k","g">>)],
      [item_name |-> Str(W_Sugar), quantity |-> Str(<<"x">>), unit |-> Str(<<"k","g">>),
       unit_price |-> Num(RInt(40))],
      [item_name |-> Str(W_Sugar), quantity |-> Num(RInt(1)), unit |-> Str(<<"k","g">>),
       unit_price |-> Num(RInt(40)), total_price |-> Str(<<"x">>)],
      [item_name |-> Str(W_Sugar), quantity |-> Num(RInt(1)), unit |-> Str(<<"k","g">>),
       unit_price |-> Num(RInt(40)), category |-> Null, confidence |-> Null],
      [item_name |-> Str(W_Oil), quantity |-> Num(RInt(1)), unit |-> Null,
       unit_price |-> Num(RInt(40))],
      [item_name |-> Str(Blank), quantity |-> Num(RInt(1)), unit |-> Str(<<"k","g">>),
       unit_price |-> Str(<<"4",".","5">>)],
      [item_name |-> Str(<<"K","g">>), quantity |-> Num(RInt(1)),
       unit |-> Str(<<"k","g">>), unit_price |-> Num(RInt(40)), total_price |-> Null,
       category |-> Null, confidence |-> Num(Rat(9, 10))] }

RECURSIVE CandidatesOfLen(_)
CandidatesOfLen(k) ==
    IF k = 0 THEN {<<>>}
    ELSE {Append(t, c) : t \in CandidatesOfLen(k - 1), c \in AiCandidates}
AiResponses ==
    {[raises |-> TRUE, candidates |-> <<>>]} \cup
    {[raises |-> FALSE, candidates |-> c] :
        c \in UNION {CandidatesOfLen(k) : k \in 0..MaxCandidates}}

----------------------------------------------------------------------------
(* parse_receipt *)

NotReturned == [returned |-> FALSE]

\* the statistics after the stages raise: sum() meets a total_price or a
\* confidence that is not a number
SummaryRaises(its) ==
    \E k \in DOMAIN its :
       \/ Has(its[k], "total_price") /\ its[k]["total_price"].tag /= "num"
       \/ Has(its[k], "confidence") /\ its[k]["confidence"].tag /= "num"

\* calculate_complementary_items: the quantities of the items whose lower-cased
\* name holds a breakfast word, each item once (the break), up to item k
breakfast_items == {
    <<"d","o","s","a">>,
    <<"i","d","l","i">>,
    <<"v","a","d","a">>,
    <<"u","t","a","p","p","a","m">>,
    <<"r","a","v","a">>,
    <<"m","a","s","a","l","a"," ","d","o","s","a">>,
    <<"p","l","a","i","n"," ","d","o","s","a">>,
    <<"s","e","t"," ","d","o","s","a">>,
    <<"o","n","i","o","n"," ","d","o","s","a">>,
    <<"p","e","s","a","r","a","t","t","u">>,
    <<"u","p","m","a">>}
RECURSIVE total_breakfast_quantity(_, _)
total_breakfast_quantity(its, k) ==
    IF k = 0 THEN RInt(0)
    ELSE RAdd(total_breakfast_quantity(its, k - 1),
              IF \E b \in breakfast_items : Contains(Lower(its[k]["item_name"].val), b)
              THEN its[k]["quantity"].val ELSE RInt(0))
calculate_complementary_items(its) ==
    [groundnut_chutney |-> total_breakfast_quantity(its, Len(its)),
     tomato_chutney |-> total_breakfast_quantity(its, Len(its)),
     karam_podi |-> total_breakfast_quantity(its, Len(its)),
     sambar |-> total_breakfast_quantity(its, Len(its))]

\* item.get('category', 'other'): the key an item is grouped under
CategoryKey(item) == IF Has(item, "category") THEN item["category"] ELSE Str("other")
\* item.get('total_price', 0)
PriceOf(item) == IF Has(item, "total_price") THEN item["total_price"].val ELSE RInt(0)

\* sum(item.get('total_price', 0) for item in items), up to item k
RECURSIVE total_amount(_, _)
total_amount(its, k) ==
    IF k = 0 THEN RInt(0) ELSE RAdd(total_amount(its, k - 1), PriceOf(its[k]))

\* category_summary[c]['total_value'] after the loop has seen items 1..k
RECURSIVE CategoryValue(_, _, _)
CategoryValue(its, c, k) ==
    IF k = 0 THEN RInt(0)
    ELSE RAdd(CategoryValue(its, c, k - 1),
              IF CategoryKey(its[k]) = c THEN PriceOf(its[k]) ELSE RInt(0))

\* the dict built by the loop "Group by category"
category_summary(its) ==
    [c \in {CategoryKey(its[k]) : k \in DOMAIN its} |->
        [count |-> Cardinality({k \in DOMAIN its : CategoryKey(its[k]) = c}),
         total_value |-> CategoryValue(its, c, Len(its))]]

\* the envelope parse_receipt returns for the items and method it ended with
\* (average_confidence, vendor and metadata are read by no property here and
\* are left out; the vendor fields are those of extract_vendor_info below)
Envelope(its, method) ==
    IF SummaryRaises(its)
    THEN [returned |-> TRUE, success |-> FALSE, items |-> <<>>,
          parsing_method |-> "failed", total_items |-> 0,
          summary |-> [total_items |-> 0, total_amount |-> RInt(0),
                       parsing_method |-> "failed"]]
    ELSE [returned |-> TRUE, success |-> TRUE, items |-> its,
          parsing_method |-> method, total_items |-> Len(its),
          complementary_items |-> calculate_complementary_items(its),
          summary |-> [total_items |-> Len(its),
                       total_amount |-> Round2(total_amount(its, Len(its))),
                       parsing_method |-> method,
                       categories |-> category_summary(its)]]

InitWith(T) ==
    /\ pc = "start"
    /\ text \in T
    /\ model \in BOOLEAN
    /\ lines = <<>>
    /\ idx = 1
    /\ items = <<>>
    /\ added_keys = {}
    /\ prev_non_empty = None
    /\ parsing_method = ""
    /\ ai_response = [raises |-> FALSE, candidates |-> <<>>]
    /\ result = NotReturned
    /\ cat_name = <<>>
    /\ cat_out = ""
    /\ AuxIdle

Init == InitWith(Texts(ReceiptLines))

\* parse_receipt up to the call of _deterministic_parse_items, and that
\* function up to its loop.  The texts are ASCII, so detect_regional_language
\* answers 'english'.  header_index is computed and never read.
Start ==
    /\ pc = "start"
    /\ pc' = "deterministic"
    /\ lines' = StrippedLines(text)
    /\ idx' = 1
    /\ items' = <<>>
    /\ added_keys' = {}
    /\ prev_non_empty' = None
    /\ UNCHANGED aux
    /\ UNCHANGED <<text, model, parsing_method, ai_response, result, cat_name, cat_out>>

\* one iteration of the loop of _deterministic_parse_items
DetStep ==
    /\ pc = "deterministic"
    /\ idx <= Len(lines)
    /\ \E o \in {ParseLine(lines[idx], added_keys, prev_non_empty)} :
       /\ items' = items \o o.emit
       /\ added_keys' = o.keys
       /\ prev_non_empty' = o.prev
    /\ idx' = idx + 1
    /\ UNCHANGED aux
    /\ UNCHANGED <<pc, text, model, lines, parsing_method, ai_response, result,
                   cat_name, cat_out>>

\* _deterministic_parse_items returns; parse_receipt keeps its items or
\* turns to the regex fallback
DetReturn ==
    /\ pc = "deterministic"
    /\ idx > Len(lines)
    /\ IF items /= <<>>
       THEN pc' = "summary" /\ parsing_method' = "deterministic" /\ idx' = idx
       ELSE pc' = "fallback" /\ parsing_method' = "regex_fallback" /\ idx' = 1
    /\ UNCHANGED aux
    /\ UNCHANGED <<text, model, lines, items, added_keys, prev_non_empty,
                   ai_response, result, cat_name, cat_out>>

\* one iteration of the loop of _enhanced_fallback_parse over ocr_text.split('\n')
FallbackStep ==
    /\ pc = "fallback"
    /\ idx <= Len(text)
    /\ items' = items \o FallbackLine(text[idx])
    /\ idx' = idx + 1
    /\ UNCHANGED aux
    /\ UNCHANGED <<pc, text, model, lines, added_keys, prev_non_empty,
                   parsing_method, ai_response, result, cat_name, cat_out>>

\* a parse_receipt that asks the AI whenever a model exists, whatever the
\* regex fallback found
FallbackReturnAsksAi ==
    /\ pc = "fallback"
    /\ idx > Len(text)
    /\ pc' = IF model THEN "ai" ELSE "summary"
    /\ UNCHANGED aux
    /\ UNCHANGED <<text, model, lines, idx, items, added_keys, prev_non_empty,
                   parsing_method, ai_response, result, cat_name, cat_out>>

\* _enhanced_fallback_parse returns; the AI is asked only if there is still
\* nothing and a model exists
FallbackReturn ==
    /\ pc = "fallback"
    /\ idx > Len(text)
    /\ pc' = IF items = <<>> /\ model THEN "ai" ELSE "summary"
    /\ UNCHANGED aux
    /\ UNCHANGED <<text, model, lines, idx, items, added_keys, prev_non_empty,
                   parsing_method, ai_response, result, cat_name, cat_out>>

\* ai_items = self.parse_with_gemini(ocr_text)
AiCall ==
    /\ pc = "ai"
    /\ \E r \in AiResponses :
          /\ ai_response' = r
          /\ \E ai_items \in {parse_with_gemini(text, r)} :
             IF ai_items /= <<>>
             THEN items' = ai_items /\ parsing_method' = "gemini_ai"
             ELSE UNCHANGED <<items, parsing_method>>
    /\ pc' = "summary"
    /\ UNCHANGED aux
    /\ UNCHANGED <<text, model, lines, idx, added_keys, prev_non_empty, result,
                   cat_name, cat_out>>

\* the statistics and the returned envelope (or the except branch)
Finish ==
    /\ pc = "summary"
    /\ result' = Envelope(items, parsing_method)
    /\ pc' = "done"
    /\ UNCHANGED aux
    /\ UNCHANGED <<text, model, lines, idx, items, added_keys, prev_non_empty,
                   parsing_method, ai_response, cat_name, cat_out>>

Next ==
    \/ Start
    \/ DetStep
    \/ DetReturn
    \/ FallbackStep
    \/ FallbackReturn
    \/ AiCall
    \/ Finish

Spec == Init /\ [][Next]_vars

TypeOK ==
    pc \in {"start", "deterministic", "fallback", "ai", "summary", "done",
            "categorize", "categorized"}

----------------------------------------------------------------------------
(* Properties of parse_receipt on the mixed receipts (Spec) *)

\* x and y agree within 2% of the larger or within 0.5 (x, y >= 0)
WithinTolerance(x, y) ==
    LET d == RAbs(RSub(x, y)) IN
    \/ 2 * d.n <= d.d
    \/ RLe(RMul(RInt(50), d), RMax(x, y))

\* the items in hand are those of the deterministic parser
Deterministic == pc = "deterministic" \/ parsing_method = "deterministic"

HasLetters(s) == \E k \in DOMAIN s : IsAlpha(s[k])

\* the last item of a list
Last(its) == its[Len(its)]

\* C2: a line that is exactly 'qty x price = total', whose immediately
\* preceding candidate line contains letters and is not itself a
\* multiplication, produces an item named by that preceding line, with
\* quantity = qty, unit_price = price, total_price = total, confidence 0.9.
C2_BareMultiplicationCarriesName ==
    [][ ( /\ pc = "deterministic"
          /\ idx > 1
          /\ idx <= Len(lines)
          /\ bare_mult_pattern(NormalizeLine(lines[idx])).ok
          /\ HasLetters(lines[idx - 1])
          /\ ~LooksLikeMult(lines[idx - 1]) )
        => LET m == bare_mult_pattern(NormalizeLine(lines[idx]))
               e == Last(items')
           IN /\ Len(items') = Len(items) + 1
              /\ e["item_name"].val \in {lines[idx - 1], _clean_item_name(lines[idx - 1])}
              /\ e["quantity"].val = ParseFloat(m.q)
              /\ e["unit_price"].val = ParseFloat(m.p)
              /\ e["total_price"].val = ParseFloat(m.t)
              /\ e["confidence"].val = Rat(9, 10) ]_vars

\* C3: a dimension-form line 'a x b - name - price' gives an item with
\* quantity = a*b, unit_price = price/quantity, total_price = price and a name
\* that contains the annotation '(axb)'.
C3_DimensionAnnotation ==
    [][ ( /\ pc = "deterministic"
          /\ idx <= Len(lines)
          /\ ~skip_line(NormalizeLine(lines[idx]))
          /\ ~mult_pattern(NormalizeLine(lines[idx])).ok
          /\ dimension_pattern(NormalizeLine(lines[idx])).ok
          /\ Len(items') > Len(items) )
        => LET m == dimension_pattern(NormalizeLine(lines[idx]))
               e == Last(items')
               quantity == RMul(ParseFloat(m.a), ParseFloat(m.b))
           IN /\ e["quantity"].val = quantity
              /\ e["total_price"].val = ParseFloat(m.price)
              /\ quantity.n > 0 => e["unit_price"].val = RDiv(ParseFloat(m.price), quantity)
              /\ Contains(e["item_name"].val,
                          <<"(">> \o m.a \o <<"x">> \o m.b \o <<")">>) ]_vars

\* a line of the bare-triplet shape only (no other pattern takes it), whose
\* last three numbers a, b, c have a*b outside the tolerance of c
MismatchedTriplet(raw_line) ==
    LET line == NormalizeLine(raw_line)
        nums == FindNums(line, 1)
        n == Len(nums)
    IN /\ Len(line) >= 3
       /\ ~skip_line(line)
       /\ ~mult_pattern(line).ok
       /\ ~dimension_pattern(line).ok
       /\ ~weight_pattern(line).ok
       /\ n >= 3
       /\ ~WithinTolerance(RMul(ParseFloat(nums[n - 2]), ParseFloat(nums[n - 1])),
                           ParseFloat(nums[n]))

\* C5: a line of the bare-triplet shape whose a*b is not within tolerance of
\* c is skipped: the result of parse_receipt (no AI model configured) holds no
\* item derived from it.
C5_MismatchedTripletSkipped ==
    ( /\ pc = "done"
      /\ ~model
      /\ text /= <<>>
      /\ \A k \in DOMAIN text : MismatchedTriplet(text[k]) )
    => result.items = <<>>

\* C6: in the deterministic parser's output no two items share the composite
\* key (lowercased name, quantity, unit_price rounded to 4 decimals).
C6_NoDuplicateKeys ==
    Deterministic =>
        \A i, j \in DOMAIN items :
            i < j => ItemKeyRounded(items[i]) /= ItemKeyRounded(items[j])

\* the product of quantity and unit price reconstructs the total
RoundTrips(item) ==
    WithinTolerance(RMul(item["quantity"].val, item["unit_price"].val),
                    item["total_price"].val)

\* C7: every item accepted by the bare-triplet rule (confidence 0.8) of the
\* deterministic parser has quantity * unit_price equal to total_price within
\* 2% relative or 0.5 absolute tolerance.
C7_TripletRoundTrip ==
    Deterministic =>
        \A k \in DOMAIN items :
            items[k]["confidence"].val = Rat(8, 10) => RoundTrips(items[k])

\* the claim as first stated: every item whose quantity, unit price and total
\* were each read from the line (named multiplication, confidence 0.95, and
\* bare triplet, confidence 0.8) round-trips
C7_AllIndependentRoundTrip ==
    Deterministic =>
        \A k \in DOMAIN items :
            items[k]["confidence"].val \in {Rat(95, 100), Rat(8, 10)}
                => RoundTrips(items[k])

\* a triplet item was accepted whose product is near its total, not equal
C7_Witness ==
    /\ pc = "deterministic"
    /\ \E k \in DOMAIN items :
          /\ items[k]["confidence"].val = Rat(8, 10)
          /\ RMul(items[k]["quantity"].val, items[k]["unit_price"].val)
                 /= items[k]["total_price"].val

\* C8: parse_receipt on empty or whitespace-only text returns success = false
\* and an empty items list.
C8_EmptyInputFails ==
    ( /\ pc = "done"
      /\ \A k \in DOMAIN text : Strip(text[k]) = <<>> )
    => (result.success = FALSE /\ result.items = <<>>)

\* the skip keywords the property names, lower-cased
NamedSkipKeywords ==
    {Lower(W_Total), <<"s","u","b","t","o","t","a","l">>, Lower(W_GST)}

\* C9: no item returned by parse_receipt has a name equal, whatever the
\* case, to a skip keyword such as 'Total', 'Subtotal' or 'GST'.
C9_NoSkipKeywordItem ==
    pc = "done" =>
        \A k \in DOMAIN result.items :
            Lower(result.items[k]["item_name"].val) \notin NamedSkipKeywords

----------------------------------------------------------------------------
(* Receipts of named-multiplication lines 'Name - Q x P = T' (SpecMult) *)

\* a number as printed and its value
Printed(txt, val) == [txt |-> txt, val |-> val]

\* names as printed and as _clean_item_name is documented to leave them
MultNames ==
    { [raw |-> W_Chicken, clean |-> W_Chicken],
      [raw |-> W_chicken, clean |-> W_Chicken],
      [raw |-> W_ChickenSlash, clean |-> W_Chicken],
      [raw |-> W_Parel_Sheet, clean |-> W_Parel_Sheet] }

\* Q, P and T; the last total disagrees with Q*P
MultAmounts ==
    { [q |-> Printed(<<"2">>, RInt(2)), p |-> Printed(<<"3">>, RInt(3)),
       t |-> Printed(<<"6">>, RInt(6))],
      [q |-> Printed(<<"1",".","5">>, Rat(3, 2)), p |-> Printed(<<"3">>, RInt(3)),
       t |-> Printed(<<"4",".","5">>, Rat(9, 2))],
      [q |-> Printed(<<"2">>, RInt(2)), p |-> Printed(<<"3">>, RInt(3)),
       t |-> Printed(<<"7">>, RInt(7))] }

MultFamily ==
    { [name |-> n, q |-> a.q, p |-> a.p, t |-> a.t,
       line |-> MultLine(n.raw, a.q.txt, a.p.txt, a.t.txt)] :
          n \in MultNames, a \in MultAmounts }

MultLines == {f.line : f \in MultFamily} \cup {Blank}

InitMult == InitWith(Texts(MultLines))

SpecMult == InitMult /\ [][Next]_vars

\* the loop is about to read a line of the family
AtMultLine ==
    /\ pc = "deterministic"
    /\ idx <= Len(lines)
    /\ \E f \in MultFamily : f.line = lines[idx]

MultOf(line) == CHOOSE f \in MultFamily : f.line = line

\* an earlier line of the text had the same lower-cased Name, Q and P
SameMultEarlier(f) ==
    \E j \in 1..(idx - 1) : \E g \in MultFamily :
        /\ g.line = lines[j]
        /\ Lower(g.name.raw) = Lower(f.name.raw)
        /\ g.q.val = f.q.val
        /\ g.p.val = f.p.val

\* C1: for every line 'Name - Q x P = T' (Name of letters, digits, spaces and
\* / & - ( ), beginning with a letter, the line beginning with no skip
\* keyword), whether or not T agrees with Q*P, the deterministic parser emits
\* one item whose name is the cleaned (title-cased, punctuation-stripped) Name,
\* quantity Q, unit_price P, total_price T, confidence 0.95; it emits nothing
\* when an earlier line of the text had the same lower-cased Name, Q and P.
C1_NamedMultiplication ==
    [][ AtMultLine =>
          LET f == MultOf(lines[idx]) IN
          IF SameMultEarlier(f) THEN items' = items
          ELSE /\ Len(items') = Len(items) + 1
               /\ items' = Append(items, Last(items'))
               /\ Last(items')["item_name"].val = f.name.clean
               /\ Last(items')["quantity"].val = f.q.val
               /\ Last(items')["unit_price"].val = f.p.val
               /\ Last(items')["total_price"].val = f.t.val
               /\ Last(items')["confidence"].val = Rat(95, 100) ]_vars

\* the claim as first stated: when T agrees with Q*P an item is emitted whose
\* name is Name as printed
C1_NameAsPrinted ==
    [][ ( /\ AtMultLine
          /\ WithinTolerance(RMul(MultOf(lines[idx]).q.val, MultOf(lines[idx]).p.val),
                             MultOf(lines[idx]).t.val) )
        => LET f == MultOf(lines[idx]) IN
           /\ Len(items') = Len(items) + 1
           /\ Last(items')["item_name"].val = f.name.raw
           /\ Last(items')["quantity"].val = f.q.val
           /\ Last(items')["unit_price"].val = f.p.val
           /\ Last(items')["total_price"].val = f.t.val
           /\ Last(items')["confidence"].val = Rat(95, 100) ]_vars

\* the line 'chicken - 2 x 3 = 7' has been read and has given Chicken, 2, 3, 7
C1_Witness ==
    /\ pc = "deterministic"
    /\ idx = 2
    /\ lines[1] = MultLine(W_chicken, <<"2">>, <<"3">>, <<"7">>)
    /\ Len(items) = 1
    /\ items[1]["item_name"].val = W_Chicken
    /\ items[1]["quantity"].val = RInt(2)
    /\ items[1]["unit_price"].val = RInt(3)
    /\ items[1]["total_price"].val = RInt(7)
    /\ items[1]["confidence"].val = Rat(95, 100)

----------------------------------------------------------------------------
(* Receipts of weight lines 'name qty<unit> ... price' (SpecWeight) *)

\* the unit tokens of the weight form and the canonical unit of each
WeightUnits ==
    { [token |-> <<"k","g">>, unit |-> U_kg],
      [token |-> <<"k","g","s">>, unit |-> U_kg],
      [token |-> <<"g">>, unit |-> U_gram],
      [token |-> <<"g","m">>, unit |-> U_gram],
      [token |-> <<"g","r","a","m","s">>, unit |-> U_gram],
      [token |-> <<"m","l">>, unit |-> U_ml],
      [token |-> <<"l">>, unit |-> U_liter],
      [token |-> <<"l","t","r">>, unit |-> U_liter] }

WeightQtys ==
    { Printed(<<"2">>, RInt(2)), Printed(<<"0">>, RInt(0)),
      Printed(<<"1",".","2","5">>, Rat(5, 4)) }

\* what stands between the unit and the price that ends the line; the last
\* filler holds a number of its own, followed by a space
WeightFillers ==
    { <<" ">>, <<" ", "-", " ">>, <<" ", "3", " ", "p", "a", "c", "k", " ">> }

WeightPrice == Printed(<<"4","5",".","0","0">>, RInt(45))

WeightFamily ==
    { [name |-> W_Rice, qty |-> q, unit |-> u, filler |-> fl, price |-> WeightPrice,
       line |-> WeightLine(W_Rice, q.txt, u.token, fl, WeightPrice.txt)] :
          q \in WeightQtys, u \in WeightUnits, fl \in WeightFillers }

\* two lines with one key, and a line that holds nothing
WeightCore ==
    { WeightLine(W_Rice, <<"2">>, <<"k","g">>, <<" ">>, WeightPrice.txt),
      WeightLine(W_Rice, <<"2">>, <<"k","g">>, <<" ", "-", " ">>, WeightPrice.txt),
      Blank }

InitWeight == InitWith({<<f.line>> : f \in WeightFamily} \cup Texts(WeightCore))

SpecWeight == InitWeight /\ [][Next]_vars

AtWeightLine ==
    /\ pc = "deterministic"
    /\ idx <= Len(lines)
    /\ \E f \in WeightFamily : f.line = lines[idx]

WeightOf(line) == CHOOSE f \in WeightFamily : f.line = line

\* an earlier line of the receipt was a weight line of the same name and
\* quantity
SameWeightEarlier(f) ==
    \E j \in 1..(idx - 1) : \E g \in WeightFamily :
        /\ g.line = lines[j]
        /\ Lower(g.name) = Lower(f.name)
        /\ g.qty.val = f.qty.val

\* C4: for a weight-form line 'name qty<unit> ... price' with unit in
\* {kg, kgs, g, gm, grams, ml, l, ltr} (qty > 0, the line repeating no earlier
\* line's name and quantity), the deterministic parser emits an item with
\* quantity = qty, unit = the canonical unit of the token, total_price = price,
\* the number that ends the line, unit_price = price/qty, and confidence 0.85.
C4_PriceOverQty ==
    [][ ( /\ AtWeightLine
          /\ WeightOf(lines[idx]).qty.val.n > 0
          /\ ~SameWeightEarlier(WeightOf(lines[idx])) )
        => LET f == WeightOf(lines[idx]) IN
           /\ Len(items') = Len(items) + 1
           /\ Last(items')["quantity"].val = f.qty.val
           /\ Last(items')["unit"].val = f.unit.unit
           /\ Last(items')["total_price"].val = f.price.val
           /\ Last(items')["unit_price"].val = RDiv(f.price.val, f.qty.val)
           /\ Last(items')["confidence"].val = Rat(85, 100) ]_vars

\* the line 'Rice 2kg 3 pack 45.00' has been read: the item is 2 kg at 1.5
\* each, 3 in total
C4_Witness ==
    /\ pc = "deterministic"
    /\ idx = 2
    /\ lines[1] = WeightLine(W_Rice, <<"2">>, <<"k","g">>,
                             <<" ", "3", " ", "p", "a", "c", "k", " ">>, WeightPrice.txt)
    /\ Len(items) = 1
    /\ items[1]["quantity"].val = RInt(2)
    /\ items[1]["unit"].val = U_kg
    /\ items[1]["unit_price"].val = Rat(3, 2)
    /\ items[1]["total_price"].val = RInt(3)

----------------------------------------------------------------------------
(* The categorizer on its own: _categorize_item applied to one name *)


CatWords == {W_Chicken, W_Milk, W_Sugar, W_Rice, W_Total, W_GST, W_Xyz, W_Fresh,
             W_Oil, W_Q7, W_Ice, W_Tea}
\* one word, or two words with a space between
CatNames == CatWords \cup {a \o <<" ">> \o b : a \in CatWords, b \in CatWords}

InitCat ==
    /\ pc = "categorize"
    /\ cat_name \in CatNames
    /\ cat_out = ""
    /\ text = <<>>
    /\ model = FALSE
    /\ lines = <<>>
    /\ idx = 1
    /\ items = <<>>
    /\ added_keys = {}
    /\ prev_non_empty = None
    /\ parsing_method = ""
    /\ ai_response = [raises |-> FALSE, candidates |-> <<>>]
    /\ result = NotReturned
    /\ AuxIdle

Categorize ==
    /\ pc = "categorize"
    /\ cat_out' = _categorize_item(cat_name)
    /\ pc' = "categorized"
    /\ UNCHANGED aux
    /\ UNCHANGED <<text, model, lines, idx, items, added_keys, prev_non_empty,
                   parsing_method, ai_response, result, cat_name>>

NextCat == Categorize

SpecCat == InitCat /\ [][NextCat]_vars

\* the keys of the category table, and the default
CategoryVocabulary == {categories[c].category : c \in DOMAIN categories} \cup {"other"}

\* C10: the categorizer is total: for every non-empty item name it returns one
\* category of the fixed vocabulary (a key of the category table or 'other'),
\* never an empty or missing one.
C10_CategorizerTotal ==
    (pc = "categorized" /\ cat_name /= <<>>) =>
        (cat_out /= "" /\ cat_out \in CategoryVocabulary)

\* a name that no keyword matches in either pass has got the default
C10_Witness ==
    /\ pc = "categorized"
    /\ cat_name = W_Xyz \o <<" ">> \o W_Q7
    /\ cat_out = "other"

----------------------------------------------------------------------------
(* Properties of the AI stage (Spec) *)

\* v can be parsed as a number
ParsesAsNumber(v) ==
    \/ v.tag = "num"
    \/ v.tag = "str" /\ IsNumeric(Strip(v.val))

\* the rejection rule in the words of the validator's contract
Rejected(c) ==
    \/ \E f \in {"item_name", "quantity", "unit", "unit_price"} :
          f \notin DOMAIN c \/ c[f] = Null
    \/ ~ParsesAsNumber(c["quantity"])
    \/ ~ParsesAsNumber(c["unit_price"])
    \/ Strip(c["item_name"].val) = <<>>

\* the enhanced records of the candidates that are not rejected, in order
RECURSIVE EnhancedAccepted(_, _)
EnhancedAccepted(cands, k) ==
    IF k > Len(cands) THEN <<>>
    ELSE (IF Rejected(cands[k]) THEN <<>> ELSE <<_enhance_item(cands[k])>>)
             \o EnhancedAccepted(cands, k + 1)

\* C11: the item validator rejects a candidate exactly when one of item_name,
\* quantity, unit, unit_price is missing or null, or quantity or unit_price
\* does not parse as a number, or item_name trims to empty; every other
\* candidate is accepted, and the output of parse_with_gemini holds the
\* accepted candidates only (in order, enhanced).
C11_ValidatorRejectsExactly ==
    [][ (pc = "ai" /\ ~GeminiRaises(ai_response'))
        => /\ \A k \in DOMAIN ai_response'.candidates :
                 _validate_enhanced_item(ai_response'.candidates[k])
                     <=> ~Rejected(ai_response'.candidates[k])
           /\ items' = EnhancedAccepted(ai_response'.candidates, 1) ]_vars

\* an answer with a rejected and an accepted candidate has given one item
C11_Witness ==
    /\ pc = "summary"
    /\ parsing_method = "gemini_ai"
    /\ Len(ai_response.candidates) = 2
    /\ Rejected(ai_response.candidates[1])
    /\ ~Rejected(ai_response.candidates[2])
    /\ Len(items) = 1
    /\ items[1]["item_name"].val = W_Milk

\* a candidate is malformed: a required field is missing or null, or its
\* quantity, unit_price or total_price is no number
Malformed(c) ==
    \/ \E f \in {"item_name", "quantity", "unit", "unit_price"} :
          f \notin DOMAIN c \/ c[f] = Null
    \/ ~ParsesAsNumber(c["quantity"])
    \/ ~ParsesAsNumber(c["unit_price"])
    \/ /\ Has(c, "total_price")
       /\ c["total_price"] /= Null
       /\ ~ParsesAsNumber(c["total_price"])

\* the candidates of an answer that are well formed and have a name
ValidCandidates(cands) ==
    SelectSeq(cands, LAMBDA c : ~Malformed(c) /\ ~Rejected(c))

\* C12: a malformed AI candidate (a required field missing, or a quantity,
\* unit_price or total_price that is no number) is dropped on its own: every
\* valid candidate of the same answer is still returned by parse_with_gemini.
C12_MalformedDroppedAlone ==
    [][ (pc = "ai" /\ ~ai_response'.raises)
        => /\ Len(items') = Len(ValidCandidates(ai_response'.candidates))
           /\ \A k \in DOMAIN items' :
                 items'[k] = _enhance_item(ValidCandidates(ai_response'.candidates)[k])
      ]_vars

\* the answer held a valid candidate and one whose total_price is no number,
\* and nothing was returned
C12_Witness ==
    /\ pc = "summary"
    /\ ~ai_response.raises
    /\ Len(ai_response.candidates) = 2
    /\ ~Malformed(ai_response.candidates[1]) /\ ~Rejected(ai_response.candidates[1])
    /\ ~Rejected(ai_response.candidates[2])
    /\ Malformed(ai_response.candidates[2])
    /\ items = <<>>
    /\ parsing_method = "regex_fallback"

\* C13: whenever the AI suggester fails during parse_receipt (the call or the
\* decoding of its answer raises, or the handling of a candidate does),
\* parse_receipt returns success = true with the items of the regex parse of
\* the text (possibly none), and never success = false.
C13_AiFailureFallsBack ==
    (pc = "done" /\ GeminiRaises(ai_response))
    => /\ result.success = TRUE
       /\ result.items = _enhanced_fallback_parse(text)
       /\ result.parsing_method = "regex_fallback"

\* parse_receipt has returned after an AI call that raised
C13_Witness ==
    /\ pc = "done"
    /\ model
    /\ text /= <<>>
    /\ ai_response.raises
    /\ result.success = TRUE
    /\ result.items = <<>>

----------------------------------------------------------------------------
(* services/sales_report_parser.py: fallback_parsing and the complementary *)
(* item counters.  A report is the sequence of its raw lines                *)
(* (ocr_text.split('\n')); the rupee sign is left out of the texts, the     *)
(* amount cleaning removes every character but digits and points anyway.   *)

\* \s of the re module, for the characters of the reports
WsSet == {" ", "\t"}
WordSet == UpperSet \cup LowerSet \cup DigitSet \cup {"_"}
\* str.strip() with no argument
StripWs(s) == StripChars(s, WsSet)

\* re.split(r'\s{2,}|\t+', s): a separator is a run of two or more white
\* space characters, or one tab; a single space stays inside its cell
RECURSIVE SplitCells(_, _, _)
SplitCells(s, start, k) ==
    IF k > Len(s) THEN <<Slice(s, start, Len(s) + 1)>>
    ELSE IF s[k] \in WsSet /\ (LStripIdx(s, WsSet, k) - k >= 2 \/ s[k] = "\t")
    THEN <<Slice(s, start, k)>>
         \o SplitCells(s, LStripIdx(s, WsSet, k), LStripIdx(s, WsSet, k))
    ELSE SplitCells(s, start, k + 1)

S_customer == <<"c","u","s","t","o","m","e","r">>
S_item == <<"i","t","e","m">>
S_units == <<"u","n","i","t","s">>

\* lines = [line for line in ocr_text.split('\n') if line.strip()]
ReportLines(ocr_text) == SelectSeq(ocr_text, LAMBDA line : StripWs(line) /= <<>>)

\* "item" in header_line and "customer" not in header_line
is_summary_format(report_lines) ==
    /\ report_lines /= <<>>
    /\ Contains(Lower(report_lines[1]), S_item)
    /\ ~Contains(Lower(report_lines[1]), S_customer)

\* re.search(r'(\d+)', qstr): the first run of digits, or <<>>
FirstDigits(qstr) ==
    IF \E k \in 1..Len(qstr) : IsDigit(qstr[k])
    THEN Bind(CHOOSE k \in 1..Len(qstr) :
                 IsDigit(qstr[k]) /\ \A j \in 1..(k - 1) : ~IsDigit(qstr[j]),
              LAMBDA f : Slice(qstr, f, LStripIdx(qstr, DigitSet, f)))
    ELSE <<>>

\* the else branch of the quantity parse: just the number, or 1
QuantityOnly(qstr) ==
    IF FirstDigits(qstr) /= <<>>
    THEN [quantity |-> IntOf(FirstDigits(qstr)), unit |-> S_units]
    ELSE [quantity |-> 1, unit |-> S_units]

\* re.match(r'(\d+)\s*(\w+)', qstr) and the branches after it.  d is the end
\* of the leading digits and w the end of the white space after them.  When
\* no word character follows, the match gives the last digit back to (\w+).
QuantityAt(qstr, d, w) ==
    IF d > 1 /\ w <= Len(qstr) /\ qstr[w] \in WordSet
    THEN [quantity |-> IntOf(Slice(qstr, 1, d)),
          unit |-> Lower(Slice(qstr, w, LStripIdx(qstr, WordSet, w)))]
    ELSE IF d > 2
    THEN [quantity |-> IntOf(Slice(qstr, 1, d - 1)), unit |-> <<qstr[d - 1]>>]
    ELSE QuantityOnly(qstr)
QuantityUnit(qstr) ==
    Bind(LStripIdx(qstr, DigitSet, 1), LAMBDA d :
       QuantityAt(qstr, d, LStripIdx(qstr, WsSet, d)))

\* re.sub(r'[^\d.]', '', amount_str)
CleanAmount(amount_str) == SelectSeq(amount_str, LAMBDA c : IsDigit(c) \/ c = ".")
\* float(clean_amount) if clean_amount else 0, and 0 when float() raises
AmountOfClean(clean_amount) ==
    IF /\ \E k \in 1..Len(clean_amount) : IsDigit(clean_amount[k])
       /\ Cardinality({k \in 1..Len(clean_amount) : clean_amount[k] = "."}) <= 1
    THEN ParseFloat(clean_amount)
    ELSE RInt(0)
TotalAmount(amount_str) == AmountOfClean(CleanAmount(amount_str))

\* the three cells of a row, read
ReadRow(item, qstr, amount_str) ==
    Bind(QuantityUnit(StripWs(qstr)), LAMBDA qu :
       [item |-> StripWs(item), quantity |-> qu.quantity, unit |-> qu.unit,
        total_amount |-> TotalAmount(amount_str)])

\* the cells a line is read from: none for a header or a short line, the
\* first three in the summary format, the three after the customer otherwise
RowCells(row, summary) ==
    IF \/ Contains(Lower(row[1]), S_customer)
       \/ Contains(Lower(row[1]), S_item)
       \/ Len(row) < 3
    THEN <<>>
    ELSE IF summary
    THEN <<[item |-> row[1], qstr |-> row[2], amount_str |-> row[3]]>>
    ELSE IF Len(row) < 4 THEN <<>>
    ELSE <<[item |-> row[2], qstr |-> row[3], amount_str |-> row[4]]>>
LineCells(line, summary) == RowCells(SplitCells(StripWs(line), 1, 1), summary)
RowOfLine(line, summary) ==
    IF LineCells(line, summary) = <<>> THEN <<>>
    ELSE <<ReadRow(LineCells(line, summary)[1].item,
                   LineCells(line, summary)[1].qstr,
                   LineCells(line, summary)[1].amount_str)>>

\* Aggregate by item: a known name adds its quantity and amount and keeps
\* its unit, a new name is added at the end of the dict
AggregateRow(aggregation, r) ==
    IF \E k \in DOMAIN aggregation : aggregation[k].item = r.item
    THEN [k \in DOMAIN aggregation |->
            IF aggregation[k].item = r.item
            THEN [aggregation[k] EXCEPT
                     !.total_quantity = @ + r.quantity,
                     !.total_amount = RAdd(@, r.total_amount)]
            ELSE aggregation[k]]
    ELSE Append(aggregation,
                [item |-> r.item, total_quantity |-> r.quantity, unit |-> r.unit,
                 total_amount |-> r.total_amount])
RECURSIVE AggregateRows(_, _, _)
AggregateRows(aggregation, rows, k) ==
    IF k > Len(rows) THEN aggregation
    ELSE AggregateRows(AggregateRow(aggregation, rows[k]), rows, k + 1)

\* item_entry with the price of one unit written as the amount
ItemEntryAmountPerUnit(data) ==
    [item_name |-> data.item,
     total_quantity |-> data.total_quantity,
     unit |-> data.unit,
     unit_price |-> Round2(data.total_amount),
     total_amount |-> Round2(IF data.total_quantity > 0
                             THEN RDiv(data.total_amount, RInt(data.total_quantity))
                             ELSE RInt(0))]

\* item_entry
ItemEntry(data) ==
    [item_name |-> data.item,
     total_quantity |-> data.total_quantity,
     unit |-> data.unit,
     unit_price |-> Round2(IF data.total_quantity > 0
                           THEN RDiv(data.total_amount, RInt(data.total_quantity))
                           ELSE RInt(0)),
     total_amount |-> Round2(data.total_amount)]

\* items.sort(key=total_amount, reverse=True): stable, so an entry goes
\* behind the earlier entries that are not smaller
InsertEntry(sorted, e) ==
    Bind(Cardinality({j \in DOMAIN sorted :
                         ~RLt(sorted[j].total_amount, e.total_amount)}),
         LAMBDA k : SubSeq(sorted, 1, k) \o <<e>> \o SubSeq(sorted, k + 1, Len(sorted)))
RECURSIVE SortedEntries(_, _)
SortedEntries(entries, k) ==
    IF k = 0 THEN <<>> ELSE InsertEntry(SortedEntries(entries, k - 1), entries[k])

RECURSIVE SumAmount(_, _)
SumAmount(aggregation, k) ==
    IF k = 0 THEN RInt(0)
    ELSE RAdd(SumAmount(aggregation, k - 1), aggregation[k].total_amount)
RECURSIVE SumQuantity(_, _)
SumQuantity(aggregation, k) ==
    IF k = 0 THEN 0 ELSE SumQuantity(aggregation, k - 1) + aggregation[k].total_quantity

breakfast_keywords == {
    <<"d","o","s","a">>,
    <<"i","d","l","i">>,
    <<"v","a","d","a">>,
    <<"u","t","t","a","p","a","m">>,
    <<"u","t","a","p","p","a","m">>,
    <<"r","a","v","a">>,
    <<"m","a","s","a","l","a"," ","d","o","s","a">>,
    <<"p","l","a","i","n"," ","d","o","s","a">>,
    <<"s","e","t"," ","d","o","s","a">>,
    <<"o","n","i","o","n"," ","d","o","s","a">>,
    <<"p","e","s","a","r","a","t","t","u">>,
    <<"u","p","m","a">>,
    <<"p","o","h","a">>,
    <<"p","o","n","g","a","l">>,
    <<"p","o","o","r","i">>,
    <<"p","u","r","i">>,
    <<"p","a","r","a","t","h","a">>,
    <<"b","h","a","t","u","r","a">>,
    <<"b","h","a","t","u","r","e">>,
    <<"c","h","o","l","e"," ","b","h","a","t","u","r","e">>}

\* the loop counting an item once for every keyword its name holds
RECURSIVE total_breakfast_qty_per_keyword(_, _, _)
total_breakfast_qty_per_keyword(its, names, k) ==
    IF k = 0 THEN 0
    ELSE total_breakfast_qty_per_keyword(its, names, k - 1)
         + (IF names /= {}
            THEN IF Lower(its[k].item_name) \in {Lower(n) : n \in names}
                 THEN its[k].total_quantity ELSE 0
            ELSE its[k].total_quantity
                 * Cardinality({kw \in breakfast_keywords :
                                   Contains(Lower(its[k].item_name), kw)}))

\* the loop of _calculate_complementary_from_items, up to item k
RECURSIVE total_breakfast_qty(_, _, _)
total_breakfast_qty(its, names, k) ==
    IF k = 0 THEN 0
    ELSE total_breakfast_qty(its, names, k - 1)
         + (IF IF names /= {}
               THEN Lower(its[k].item_name) \in {Lower(n) : n \in names}
               ELSE \E kw \in breakfast_keywords : Contains(Lower(its[k].item_name), kw)
            THEN its[k].total_quantity ELSE 0)

_calculate_complementary_from_items(its, names) ==
    [groundnut_chutney |-> total_breakfast_qty(its, names, Len(its)),
     tomato_chutney |-> total_breakfast_qty(its, names, Len(its)),
     karam_podi |-> total_breakfast_qty(its, names, Len(its)),
     sambar |-> total_breakfast_qty(its, names, Len(its))]

\* breakdown[name] = breakdown.get(name, 0) + qty
AddQuantity(breakdown, name, qty) ==
    [n \in DOMAIN breakdown \cup {name} |->
        IF n = name
        THEN (IF name \in DOMAIN breakdown THEN breakdown[name] ELSE 0) + qty
        ELSE breakdown[n]]

\* a breakdown that tests the keywords whatever names are given
RECURSIVE BreakdownByKeywordsUpTo(_, _, _)
BreakdownByKeywordsUpTo(its, names, k) ==
    IF k = 0 THEN <<>>
    ELSE IF \E kw \in breakfast_keywords : Contains(Lower(its[k].item_name), kw)
         THEN AddQuantity(BreakdownByKeywordsUpTo(its, names, k - 1),
                          its[k].item_name, its[k].total_quantity)
         ELSE BreakdownByKeywordsUpTo(its, names, k - 1)
BreakdownByKeywords(its, names) == BreakdownByKeywordsUpTo(its, names, Len(its))

\* the loop of _breakfast_breakdown_from_items, up to item k: the dict from
\* item name to quantity
RECURSIVE BreakdownUpTo(_, _, _)
BreakdownUpTo(its, names, k) ==
    IF k = 0 THEN <<>>
    ELSE IF IF names /= {}
            THEN Lower(its[k].item_name) \in {Lower(n) : n \in names}
            ELSE \E kw \in breakfast_keywords : Contains(Lower(its[k].item_name), kw)
         THEN AddQuantity(BreakdownUpTo(its, names, k - 1),
                          its[k].item_name, its[k].total_quantity)
         ELSE BreakdownUpTo(its, names, k - 1)

_breakfast_breakdown_from_items(its, names) == BreakdownUpTo(its, names, Len(its))

\* the part of fallback_parsing after its loop
SalesResult(aggregation) ==
    Bind(SortedEntries([k \in DOMAIN aggregation |-> ItemEntry(aggregation[k])],
                       Len(aggregation)),
         LAMBDA its :
       [returned |-> TRUE,
        summary |-> [total_revenue |-> Round2(SumAmount(aggregation, Len(aggregation))),
                     total_items_sold |-> SumQuantity(aggregation, Len(aggregation)),
                     unique_items_count |-> Len(its)],
        items |-> its,
        complementary_items |-> _calculate_complementary_from_items(its, {}),
        complementary_breakdown |-> _breakfast_breakdown_from_items(its, {})])

\* the largest number of rows under the first line of a report
MaxRows == 3

H_Summary == <<"I","t","e","m"," "," ","Q","t","y"," "," ","A","m","o","u","n","t">>
H_Detail == <<"C","u","s","t","o","m","e","r"," "," ","I","t","e","m"," "," ","Q","t","y"," "," ","A","m","o","u","n","t">>
\* two plates of Dosa
R1 == <<"D","o","s","a"," "," ","2"," ","p","l","a","t","e","s"," "," ","4","0">>
\* the same name again, another spelling of the unit
R2 == <<"D","o","s","a"," "," ","3"," ","P","l","a","t","e","s"," "," ","6","0",".","5","0">>
\* the same name in capitals: another key
R3 == <<"D","O","S","A"," "," ","1"," ","p","l","a","t","e"," "," ","2","0">>
\* an amount that does not divide
R4 == <<"T","e","a"," "," ","3"," ","c","u","p","s"," "," ","1","0">>
\* tabs between the cells, a bare quantity, a comma in the amount
R5 == <<"T","e","a","\t","1","0","\t","1",",","0">>
\* quantity zero, less than a cent
R6 == <<"I","d","l","i"," "," ","0"," ","p","c"," "," ","0",".","0","0","4">>
\* no number in the quantity
R7 == <<"U","p","m","a"," "," ","x"," "," ","0",".","0","0","4">>
\* a transaction row: customer, item, quantity, amount
R8 == <<"R","a","v","i"," "," ","M","a","s","a","l","a"," ","D","o","s","a"," "," ","2"," ","p","l","a","t","e","s"," "," ","4","0">>
\* a name that holds the word 'item'
R9 == <<"I","t","e","m"," ","S","p","e","c","i","a","l"," "," ","1"," ","p","c"," "," ","5">>
\* two cells only
R10 == <<"T","o","t","a","l"," "," ","5">>
SalesRows == {R1, R2, R3, R4, R5, R6, R7, R8, R9, R10}

\* the reports: no first line or a header, then at most MaxRows rows
SalesTexts ==
    {h \o t : h \in {<<>>, <<H_Summary>>, <<H_Detail>>},
              t \in UNION {TextsOfLen(SalesRows, k) : k \in 0..MaxRows}}

InitSales ==
    /\ pc = "sales"
    /\ text \in SalesTexts
    /\ model = FALSE
    /\ lines = <<>>
    /\ idx = 1
    /\ items = <<>>
    /\ added_keys = {}
    /\ prev_non_empty = None
    /\ parsing_method = ""
    /\ ai_response = [raises |-> FALSE, candidates |-> <<>>]
    /\ result = NotReturned
    /\ cat_name = <<>>
    /\ cat_out = ""
    /\ AuxIdle

\* fallback_parsing up to its loop
SalesStart ==
    /\ pc = "sales"
    /\ pc' = "rows"
    /\ lines' = ReportLines(text)
    /\ idx' = 1
    /\ item_aggregation' = <<>>
    /\ UNCHANGED <<text, model, items, added_keys, prev_non_empty, parsing_method,
                   ai_response, result, cat_name, cat_out, reaggregated,
                   ai_breakfast_names, complementary,
                   complementary_breakdown, vendor>>

\* one iteration of the loop of fallback_parsing
SalesRow ==
    /\ pc = "rows"
    /\ idx <= Len(lines)
    /\ \E row \in {RowOfLine(lines[idx], is_summary_format(lines))} :
          item_aggregation' = IF row = <<>> THEN item_aggregation
                              ELSE AggregateRow(item_aggregation, row[1])
    /\ idx' = idx + 1
    /\ UNCHANGED <<pc, text, model, lines, items, added_keys, prev_non_empty,
                   parsing_method, ai_response, result, cat_name, cat_out,
                   reaggregated, ai_breakfast_names, complementary,
                   complementary_breakdown, vendor>>

\* the entries, their sort, the summary and the returned report
SalesReturn ==
    /\ pc = "rows"
    /\ idx > Len(lines)
    /\ result' = SalesResult(item_aggregation)
    /\ items' = result'.items
    /\ pc' = "report"
    /\ UNCHANGED <<text, model, lines, idx, added_keys, prev_non_empty,
                   parsing_method, ai_response, cat_name, cat_out, item_aggregation,
                   reaggregated, ai_breakfast_names, complementary,
                   complementary_breakdown, vendor>>

\* the entries of a report as rows: name, quantity, unit, amount
AsRows(its) ==
    [k \in DOMAIN its |->
        [item |-> its[k].item_name, quantity |-> its[k].total_quantity,
         unit |-> its[k].unit, total_amount |-> its[k].total_amount]]

\* the aggregation (the dict, the entries, the summary) run on the rows of
\* the report it has returned
Reaggregate ==
    /\ pc = "report"
    /\ reaggregated' = SalesResult(AggregateRows(<<>>, AsRows(result.items), 1))
    /\ pc' = "reaggregated"
    /\ UNCHANGED <<text, model, lines, idx, items, added_keys, prev_non_empty,
                   parsing_method, ai_response, result, cat_name, cat_out,
                   item_aggregation, ai_breakfast_names, complementary,
                   complementary_breakdown, vendor>>

\* parse_with_gemini's calls of _calculate_complementary_from_items and of
\* _breakfast_breakdown_from_items: the names are what
\* _ai_identify_breakfast_items can return, a set of item names of the list
Complementary ==
    /\ pc = "report"
    /\ \E names \in SUBSET {result.items[k].item_name : k \in DOMAIN result.items} :
          /\ ai_breakfast_names' = names
          /\ complementary' = _calculate_complementary_from_items(result.items, names)
          /\ complementary_breakdown'
                = _breakfast_breakdown_from_items(result.items, names)
    /\ pc' = "complementary"
    /\ UNCHANGED <<text, model, lines, idx, items, added_keys, prev_non_empty,
                   parsing_method, ai_response, result, cat_name, cat_out,
                   item_aggregation, reaggregated, vendor>>

NextSales ==
    \/ SalesStart
    \/ SalesRow
    \/ SalesReturn
    \/ Reaggregate
    \/ Complementary

SpecSales == InitSales /\ [][NextSales]_vars

----------------------------------------------------------------------------
(* Properties of the sales report aggregation (SpecSales) *)

\* what a quantity+unit token says: the number it starts with (the first
\* number in it when it starts with none, 1 when it has none), and the word
\* after the leading number, 'units' when there is none
TokenQuantity(qstr) ==
    IF FirstDigits(qstr) /= <<>> THEN IntOf(FirstDigits(qstr)) ELSE 1
TokenUnitAt(qstr, w) ==
    IF w > 1 /\ w <= Len(qstr) /\ IsWord(qstr[w])
    THEN Lower(Slice(qstr, w, LStripIdx(qstr, WordSet, w)))
    ELSE S_units
TokenUnit(qstr) ==
    IF qstr /= <<>> /\ IsDigit(qstr[1])
    THEN TokenUnitAt(qstr, LStripIdx(qstr, WsSet, LStripIdx(qstr, DigitSet, 1)))
    ELSE S_units

\* the rows of a report as they are written: name, quantity, unit, amount
RECURSIVE WrittenRows(_, _)
WrittenRows(report_lines, k) ==
    IF k = 0 THEN <<>>
    ELSE WrittenRows(report_lines, k - 1)
         \o [j \in DOMAIN LineCells(report_lines[k], is_summary_format(report_lines)) |->
               Bind(LineCells(report_lines[k], is_summary_format(report_lines))[j],
                    LAMBDA c :
                  [item |-> StripWs(c.item),
                   quantity |-> TokenQuantity(StripWs(c.qstr)),
                   unit |-> TokenUnit(StripWs(c.qstr)),
                   total_amount |-> TotalAmount(c.amount_str)])]

\* the rows of one name, and their sums
GroupOf(rows, name) == SelectSeq(rows, LAMBDA r : r.item = name)
RECURSIVE GroupQuantity(_, _)
GroupQuantity(group, k) ==
    IF k = 0 THEN 0 ELSE GroupQuantity(group, k - 1) + group[k].quantity
RECURSIVE GroupAmount(_, _)
GroupAmount(group, k) ==
    IF k = 0 THEN RInt(0) ELSE RAdd(GroupAmount(group, k - 1), group[k].total_amount)

\* entry e is the aggregate of the rows of its name, to the two decimals of
\* the report
EntryOfGroup(e, group) ==
    /\ group /= <<>>
    /\ e.total_quantity = GroupQuantity(group, Len(group))
    /\ e.total_amount = Round2(GroupAmount(group, Len(group)))
    /\ e.unit = group[1].unit
    /\ e.unit_price =
          IF GroupQuantity(group, Len(group)) = 0 THEN RInt(0)
          ELSE Round2(RDiv(GroupAmount(group, Len(group)),
                           RInt(GroupQuantity(group, Len(group)))))

\* C14: the aggregator groups the rows by exact item name: every name of a
\* row has exactly one entry in the output, and the entry of a name has the
\* sum of the quantities of its rows, the sum of their amounts, the unit of
\* the first of them, and unit_price = total_amount / total_quantity (0 when
\* the quantity is 0).  Amounts and prices are compared at the two decimals
\* the report keeps.
C14_GroupedByName ==
    pc = "report" =>
       Bind(WrittenRows(lines, Len(lines)), LAMBDA rows :
          /\ \A k \in DOMAIN rows :
                Cardinality({j \in DOMAIN result.items :
                                result.items[j].item_name = rows[k].item}) = 1
          /\ \A j \in DOMAIN result.items :
                EntryOfGroup(result.items[j], GroupOf(rows, result.items[j].item_name)))

\* the report 'Item  Qty  Amount' / 'Tea<tab>10<tab>1,0' is returned: ten
\* of Tea are written, the entry has one, in unit '0'
C14_Witness ==
    /\ pc = "report"
    /\ text = <<H_Summary, R5>>
    /\ Len(result.items) = 1
    /\ result.items[1].item_name = <<"T","e","a">>
    /\ result.items[1].total_quantity = 1
    /\ result.items[1].unit = <<"0">>
    /\ result.items[1].total_amount = RInt(10)

\* the sum of the amounts of the entries of a report
RECURSIVE EntriesAmount(_, _)
EntriesAmount(its, k) ==
    IF k = 0 THEN RInt(0) ELSE RAdd(EntriesAmount(its, k - 1), its[k].total_amount)

\* the entries of report b carry the names, quantities and amounts of the
\* entries of report a
SameTotalsPerItem(a, b) ==
    /\ Len(a.items) = Len(b.items)
    /\ \A j \in DOMAIN a.items : \E i \in DOMAIN b.items :
          /\ b.items[i].item_name = a.items[j].item_name
          /\ b.items[i].total_quantity = a.items[j].total_quantity
          /\ b.items[i].total_amount = a.items[j].total_amount

\* every summed amount is a whole number of hundredths
WholeCents == \A k \in DOMAIN item_aggregation :
                 Round2(item_aggregation[k].total_amount) = item_aggregation[k].total_amount

\* C15 as stated: aggregating the rows of an aggregated report again gives
\* the same total quantity and total amount for every item and the same
\* total revenue.
C15_SameRevenueAlways ==
    pc = "reaggregated" =>
       /\ SameTotalsPerItem(result, reaggregated)
       /\ reaggregated.summary.total_revenue = result.summary.total_revenue

\* C15, amended: aggregating the rows of an aggregated report again gives
\* the same total quantity and total amount for every item; the total
\* revenue is the rounded sum of the (rounded) item amounts, which is the
\* first total revenue whenever the summed amounts have at most two decimals.
C15_IdempotentOnTotals ==
    pc = "reaggregated" =>
       /\ SameTotalsPerItem(result, reaggregated)
       /\ reaggregated.summary.total_revenue
             = Round2(EntriesAmount(result.items, Len(result.items)))
       /\ WholeCents =>
             reaggregated.summary.total_revenue = result.summary.total_revenue

\* two rows of Dosa and one of Tea have been aggregated, and their two
\* entries aggregated again: 110.5 both times
C15_Witness ==
    /\ pc = "reaggregated"
    /\ text = <<H_Summary, R1, R2, R4>>
    /\ WholeCents
    /\ Len(result.items) = 2
    /\ result.items[1].total_quantity = 5
    /\ result.summary.total_revenue = Rat(221, 2)
    /\ reaggregated.summary.total_revenue = Rat(221, 2)
    /\ Len(reaggregated.items) = 2

----------------------------------------------------------------------------
(* The complementary item counters, of the sales report and of the receipt *)

W_Masala_Dosa == <<"M","a","s","a","l","a"," ","D","o","s","a">>
W_Idli == <<"I","d","l","i">>
W_Rava == <<"R","a","v","a">>
W_Dosa == <<"D","o","s","a">>

\* receipts of a breakfast counter
BreakfastLines ==
    { MultLine(W_Masala_Dosa, <<"2">>, <<"4","0">>, <<"8","0">>),
      MultLine(W_Idli, <<"3">>, <<"1","0">>, <<"3","0">>),
      MultLine(W_Tea, <<"1">>, <<"1","0">>, <<"1","0">>),
      WeightLine(W_Rava, <<"1",".","5">>, <<"k","g">>, <<" ">>, <<"6","0">>),
      W_Chicken }

\* a sales report is parsed and its counters computed, or a receipt is parsed
InitComplementary == InitSales \/ InitWith(Texts(BreakfastLines))
NextComplementary == Next \/ NextSales
SpecComplementary == InitComplementary /\ [][NextComplementary]_vars

\* the sum of f over the indices in S
RECURSIVE SumInt(_, _)
SumInt(f, S) ==
    IF S = {} THEN 0
    ELSE Bind(CHOOSE j \in S : TRUE, LAMBDA j : f[j] + SumInt(f, S \ {j}))
RECURSIVE SumRat(_, _)
SumRat(f, S) ==
    IF S = {} THEN RInt(0)
    ELSE Bind(CHOOSE j \in S : TRUE, LAMBDA j : RAdd(f[j], SumRat(f, S \ {j})))

\* the four counters all have the value v
FourCounters(c, v) ==
    /\ c.groundnut_chutney = v
    /\ c.tomato_chutney = v
    /\ c.karam_podi = v
    /\ c.sambar = v

\* the lower-cased name holds one of the words
HasKeyword(name, words) == \E w \in words : Contains(Lower(name), w)
\* the name is one of the names, whatever the case of its letters
NamedIgnoringCase(name, names) == Lower(name) \in {Lower(n) : n \in names}

\* the quantities of the entries of a sales report, and the entries with a
\* breakfast keyword in their name
QuantitiesOf(its) == [j \in DOMAIN its |-> its[j].total_quantity]
KeywordEntries(its) ==
    {j \in DOMAIN its : HasKeyword(its[j].item_name, breakfast_keywords)}

\* the counters of a receipt: the quantities of the items with a breakfast
\* word in their name
ReceiptCounters ==
    (pc = "done" /\ result.success) =>
       FourCounters(result.complementary_items,
                    SumRat([j \in DOMAIN result.items |-> result.items[j]["quantity"].val],
                           {j \in DOMAIN result.items :
                               HasKeyword(result.items[j]["item_name"].val,
                                          breakfast_items)}))
\* the counters fallback_parsing returns: keyword mode
ReportCounters ==
    pc = "report" =>
       FourCounters(result.complementary_items,
                    SumInt(QuantitiesOf(result.items), KeywordEntries(result.items)))

C16_ReceiptWitness ==
    /\ pc = "done"
    /\ result.success
    /\ Len(result.items) = 2
    /\ result.items[1]["item_name"].val = W_Masala_Dosa
    /\ FourCounters(result.complementary_items, Rat(7, 2))

----------------------------------------------------------------------------
(* extract_vendor_info: the vendor name and the phone number of a receipt. *)
(* The texts are ASCII: the en dash of the strip set and the euro and      *)
(* pound signs of the money pattern do not occur.                          *)

\* \s, with the line feed between the lines of the text
WsAll == {" ", "\t", "\n"}

\* str.isupper: a cased character, and no lower-case one
IsUpperStr(s) ==
    /\ \E k \in DOMAIN s : IsUpper(s[k])
    /\ \A k \in DOMAIN s : ~IsLower(s[k])
\* str.istitle: a cased character; upper case only after an uncased
\* character, lower case only after a cased one
IsTitleStr(s) ==
    /\ \E k \in DOMAIN s : IsAlpha(s[k])
    /\ \A k \in DOMAIN s :
          /\ IsUpper(s[k]) => (k = 1 \/ ~IsAlpha(s[k - 1]))
          /\ IsLower(s[k]) => (k > 1 /\ IsAlpha(s[k - 1]))
\* len(line.split())
WordCount(s) ==
    Cardinality({k \in DOMAIN s : s[k] \notin WsAll /\ (k = 1 \/ s[k - 1] \in WsAll)})

\* \bw\b matches, letters in any case; low is the string in lower case
WholeWord(low, w) ==
    \E k \in 1..(Len(low) - Len(w) + 1) :
       /\ MatchAt(low, k, w)
       /\ k = 1 \/ ~IsWord(low[k - 1])
       /\ k + Len(w) > Len(low) \/ ~IsWord(low[k + Len(w)])
\* \bw\.\b matches: after the point a word character must follow
DottedWord(low, w) ==
    \E k \in 1..(Len(low) - Len(w) - 1) :
       /\ MatchAt(low, k, w \o <<".">>)
       /\ k = 1 \/ ~IsWord(low[k - 1])
       /\ IsWord(low[k + Len(w) + 1])

StoreWords == {
    <<"&">>, <<"t","r","a","d","e","r">>, <<"t","r","a","d","i","n","g">>,
    <<"s","t","o","r","e">>, <<"m","a","r","t">>, <<"m","a","r","k","e","t">>,
    <<"s","u","p","e","r">>, <<"b","a","z","a","a","r">>,
    <<"b","a","z","a","r">>, <<"p","r","o","v","i","s","i","o","n">>,
    <<"w","h","o","l","e","s","a","l","e">>, <<"r","e","t","a","i","l">>,
    <<"e","n","t","e","r","p","r","i","s","e">>, <<"f","o","o","d">>,
    <<"h","o","t","e","l">>, <<"b","a","k","e","r">>,
    <<"k","i","r","a","n","a">>,
    <<"d","e","p","a","r","t","m","e","n","t","a","l">>, <<"d","e","p","t">>}
\* 'no\.?' between two \b is the whole word 'no'
BlacklistWords == {
    <<"i","n","v","o","i","c","e">>, <<"b","i","l","l">>,
    <<"r","e","c","e","i","p","t">>, <<"d","a","t","e">>, <<"t","i","m","e">>,
    <<"g","s","t">>, <<"g","s","t","i","n">>, <<"g","s","t","n">>,
    <<"v","a","t">>, <<"t","a","x">>, <<"s","u","b","t","o","t","a","l">>,
    <<"t","o","t","a","l">>, <<"a","m","o","u","n","t">>,
    <<"b","a","l","a","n","c","e">>, <<"c","a","s","h">>, <<"c","a","r","d">>,
    <<"t","h","a","n","k">>, <<"q","t","y">>, <<"p","r","i","c","e">>,
    <<"m","r","p">>, <<"r","a","t","e">>, <<"n","o">>}
AddressWords == {
    <<"r","o","a","d">>, <<"s","t","r","e","e","t">>, <<"l","a","n","e">>,
    <<"n","a","g","a","r">>, <<"c","i","t","y">>, <<"s","t","a","t","e">>,
    <<"i","n","d","i","a">>, <<"p","i","n","c","o","d","e">>, <<"p","i","n">>,
    <<"z","i","p">>, <<"d","o","o","r">>, <<"n","e","a","r">>,
    <<"o","p","p">>, <<"d","i","s","t">>, <<"b","l","k">>, <<"s","e","c">>,
    <<"a","r","e","a">>, <<"m","a","n","d","a","l">>,
    <<"v","i","l","l","a","g","e">>}
DottedAddressWords == {
    <<"s","t">>, <<"r","d">>}
MoneyWords == {
    <<"r","s">>, <<"i","n","r">>, <<"u","s","d">>, <<"$">>}
GstWords == {
    <<"g","s","t">>, <<"g","s","t","i","n">>, <<"g","s","t","n">>}

\* blacklist.search(line); the alternative # needs a word character on
\* both sides
blacklist(line) ==
    \/ Bind(Lower(line), LAMBDA low : \E w \in BlacklistWords : WholeWord(low, w))
    \/ \E k \in 2..(Len(line) - 1) :
          line[k] = "#" /\ IsWord(line[k - 1]) /\ IsWord(line[k + 1])
\* address_keywords.search(line)
address_keywords(line) ==
    Bind(Lower(line), LAMBDA low :
       \/ \E w \in AddressWords : WholeWord(low, w)
       \/ \E w \in DottedAddressWords : DottedWord(low, w))
\* money_pattern.search(line): no word boundaries
money_pattern(line) ==
    \/ Bind(Lower(line), LAMBDA low : \E w \in MoneyWords : Contains(low, w))
    \/ \E k \in 1..(Len(line) - 3) :
          /\ IsDigit(line[k])
          /\ line[k + 1] = "."
          /\ IsDigit(line[k + 2])
          /\ IsDigit(line[k + 3])

score_line(line) ==
      (IF IsUpperStr(line) THEN 3 ELSE 0)
    + (IF IsTitleStr(line) THEN 1 ELSE 0)
    + (IF WordCount(line) >= 1 /\ WordCount(line) <= 6 THEN 2 ELSE 0)
    + (IF Bind(Lower(line), LAMBDA low : \E w \in StoreWords : Contains(low, w))
       THEN 3 ELSE 0)
    - (IF \E k \in DOMAIN line : IsDigit(line[k]) THEN 1 ELSE 0)
    - (IF blacklist(line) \/ address_keywords(line) \/ money_pattern(line)
       THEN 3 ELSE 0)

\* lines = [l.strip() for l in lines_raw if l and l.strip()]
VendorLines(ocr_text) ==
    Bind(SelectSeq(ocr_text, LAMBDA l : StripChars(l, WsAll) /= <<>>), LAMBDA ls :
       [k \in DOMAIN ls |-> StripChars(ls[k], WsAll)])

top_k(vlines) == IF Len(vlines) < 20 THEN Len(vlines) ELSE 20
\* sum(c.isalpha() for c in line)
AlphaCount(line) == Cardinality({k \in DOMAIN line : IsAlpha(line[k])})
\* score_line of the lines from k to top_k, in their order
RECURSIVE ScoresFrom(_, _)
ScoresFrom(vlines, k) ==
    IF k > top_k(vlines) THEN <<>>
    ELSE <<score_line(vlines[k])>> \o ScoresFrom(vlines, k + 1)
Scores(vlines) == ScoresFrom(vlines, 1)
\* the indices of the candidates that stay: three letters, a positive score
Candidates(vlines, scores) ==
    {i \in 1..top_k(vlines) : AlphaCount(vlines[i]) >= 3 /\ scores[i] > 0}
\* a sort that puts the last of the candidates with the highest score first
BestOfLast(scores, cands) ==
    CHOOSE i \in cands :
       \A j \in cands : \/ scores[j] < scores[i]
                        \/ scores[j] = scores[i] /\ j <= i
\* candidates.sort(key=score, reverse=True): the sort is stable, so the
\* first of the candidates with the highest score comes first
BestOf(scores, cands) ==
    CHOOSE i \in cands :
       \A j \in cands : \/ scores[j] < scores[i]
                        \/ scores[j] = scores[i] /\ j >= i

\* re.sub(r"\s{2,}", " ", s)
RECURSIVE CollapseWs(_, _)
CollapseWs(s, k) ==
    IF k > Len(s) THEN <<>>
    ELSE IF s[k] \in WsAll /\ LStripIdx(s, WsAll, k) - k >= 2
    THEN <<" ">> \o CollapseWs(s, LStripIdx(s, WsAll, k))
    ELSE <<s[k]>> \o CollapseWs(s, k + 1)
\* strip(" -|"), then cleaned: the characters outside [\w\s&\.-] removed,
\* white space collapsed, stripped
Cleaned(best) ==
    StripChars(CollapseWs(SelectSeq(StripChars(best, {" ", "-", "|"}),
                                    LAMBDA c : IsWord(c) \/ c \in WsAll
                                               \/ c \in {"&", ".", "-"}),
                          1),
               WsAll)
\* cleaned if cleaned.isupper() else cleaned.title(); None when empty
VendorName(best) ==
    IF Cleaned(best) = <<>> THEN Null
    ELSE IF IsUpperStr(Cleaned(best)) THEN Str(Cleaned(best))
    ELSE Str(Title(Cleaned(best)))

\* the walk upwards from line j, not above line lo: the first line that is
\* not empty, blacklisted or money once stripped of " -|"; <<>> when none
RECURSIVE AboveFrom(_, _, _)
AboveFrom(vlines, j, lo) ==
    IF j < 1 \/ j < lo THEN <<>>
    ELSE IF \/ StripChars(vlines[j], {" ", "-", "|"}) = <<>>
            \/ blacklist(StripChars(vlines[j], {" ", "-", "|"}))
            \/ money_pattern(StripChars(vlines[j], {" ", "-", "|"}))
    THEN AboveFrom(vlines, j - 1, lo)
    ELSE StripChars(vlines[j], {" ", "-", "|"})
\* Fallback: pick the line above a GST line, from line g on
RECURSIVE GstFallback(_, _)
GstFallback(vlines, g) ==
    IF g > Len(vlines) THEN Null
    ELSE IF /\ \E w \in GstWords : WholeWord(Lower(vlines[g]), w)
            /\ AboveFrom(vlines, g - 1, g - 4) /= <<>>
            /\ VendorName(AboveFrom(vlines, g - 1, g - 4)) /= Null
    THEN VendorName(AboveFrom(vlines, g - 1, g - 4))
    ELSE GstFallback(vlines, g + 1)

NameOfScored(vlines, scores) ==
    IF Candidates(vlines, scores) = {} THEN GstFallback(vlines, 1)
    ELSE VendorName(vlines[BestOf(scores, Candidates(vlines, scores))])
VendorNameOfLines(vlines) ==
    IF vlines = <<>> THEN Null ELSE NameOfScored(vlines, Scores(vlines))
_extract_vendor_name(ocr_text) == VendorNameOfLines(VendorLines(ocr_text))

\* the text as one string
RECURSIVE JoinLines(_, _)
JoinLines(t, k) ==
    IF k > Len(t) THEN <<>>
    ELSE IF k = Len(t) THEN t[k]
    ELSE t[k] \o <<"\n">> \o JoinLines(t, k + 1)

\* label_pattern: the labels in the order of the alternation, [:\s\-]*,
\* then one of [+()\d] and six or more of [\d\s()\-+]
PhoneLabels == <<
    <<"p","h","o","n","e">>, <<"p","h">>, <<"t","e","l">>,
    <<"m","o","b","i","l","e">>, <<"m","o","b">>,
    <<"c","o","n","t","a","c","t">>, <<"w","h","a","t","s","a","p","p">>>>
PhoneSep == WsAll \cup {":", "-"}
PhoneFirst == DigitSet \cup {"+", "(", ")"}
PhoneBody == DigitSet \cup WsAll \cup {"(", ")", "-", "+"}
\* group 2 when it starts at p, <<>> when it cannot
RawFrom(t, p) ==
    IF /\ p <= Len(t)
       /\ t[p] \in PhoneFirst
       /\ LStripIdx(t, PhoneBody, p + 1) - (p + 1) >= 6
    THEN Slice(t, p, LStripIdx(t, PhoneBody, p + 1))
    ELSE <<>>
\* group 2 of a match at k with label w, <<>> when there is none
LabelRawAt(t, k, w) ==
    IF MatchAt(Lower(t), k, w)
    THEN RawFrom(t, LStripIdx(t, PhoneSep, k + Len(w)))
    ELSE <<>>
\* label_pattern.search(text) from k on: group 2 of the leftmost match
RECURSIVE LabelSearch(_, _)
LabelSearch(t, k) ==
    IF k > Len(t) THEN <<>>
    ELSE IF \E i \in DOMAIN PhoneLabels : LabelRawAt(t, k, PhoneLabels[i]) /= <<>>
    THEN LabelRawAt(t, k, PhoneLabels[CHOOSE i \in DOMAIN PhoneLabels :
                /\ LabelRawAt(t, k, PhoneLabels[i]) /= <<>>
                /\ \A j \in 1..(i - 1) : LabelRawAt(t, k, PhoneLabels[j]) = <<>>])
    ELSE LabelSearch(t, k + 1)

\* re.sub(r"\D", "", raw)
DigitsOf(raw) == SelectSeq(raw, IsDigit)
\* (\+?\d[\d\s\-()]{9,}) at k: the end of the match, 0 when there is none
GenericBody == DigitSet \cup WsAll \cup {"-", "(", ")"}
GenericEnd(t, k) ==
    IF /\ t[k] = "+"
       /\ k + 1 <= Len(t)
       /\ IsDigit(t[k + 1])
       /\ LStripIdx(t, GenericBody, k + 2) - (k + 2) >= 9
    THEN LStripIdx(t, GenericBody, k + 2)
    ELSE IF IsDigit(t[k]) /\ LStripIdx(t, GenericBody, k + 1) - (k + 1) >= 9
    THEN LStripIdx(t, GenericBody, k + 1)
    ELSE 0
\* the first of the findall chunks from k on with 10 to 13 digits
RECURSIVE GenericSearch(_, _)
GenericSearch(t, k) ==
    IF k > Len(t) THEN <<>>
    ELSE IF GenericEnd(t, k) = 0 THEN GenericSearch(t, k + 1)
    ELSE IF /\ Len(DigitsOf(Slice(t, k, GenericEnd(t, k)))) >= 10
            /\ Len(DigitsOf(Slice(t, k, GenericEnd(t, k)))) <= 13
    THEN Slice(t, k, GenericEnd(t, k))
    ELSE GenericSearch(t, GenericEnd(t, k))

\* raw: group 2 of the labelled match, else the generic chunk; <<>> when none
PhoneRaw(t) ==
    IF LabelSearch(t, 1) /= <<>> THEN LabelSearch(t, 1) ELSE GenericSearch(t, 1)

\* the last ten of the digits
LastTen(digits) == SubSeq(digits, Len(digits) - 9, Len(digits))
\* Normalize common cases.  The test for 11 digits stands inside the branch
\* for 12 and more, as in the code.
NormalizePhone(digits) ==
    IF Len(digits) = 10 THEN digits
    ELSE IF Len(digits) = 11 /\ digits[1] = "0" THEN Tail(digits)
    ELSE IF Len(digits) >= 12
    THEN IF digits[1] = "9" /\ digits[2] = "1" /\ Len(digits) >= 12
         THEN <<"+", "9", "1">> \o LastTen(digits)
         ELSE IF digits[1] = "1" /\ Len(digits) = 11
         THEN <<"+", "1">> \o LastTen(digits)
         ELSE <<"+">> \o digits
    ELSE digits

PhoneOfText(t) ==
    IF PhoneRaw(t) = <<>> THEN Null ELSE Str(NormalizePhone(DigitsOf(PhoneRaw(t))))
_extract_phone_number(ocr_text) == PhoneOfText(JoinLines(ocr_text, 1))

extract_vendor_info(ocr_text) ==
    [name |-> _extract_vendor_name(ocr_text), phone |-> _extract_phone_number(ocr_text)]

\* capitals, a store word (and 'rs' inside it)
V_Shree == <<"S","H","R","E","E"," ","T","R","A","D","E","R","S">>
\* title case, a store word
V_FreshMart == <<"F","r","e","s","h"," ","M","a","r","t">>
\* the same score as 'Fresh Mart'
V_FreshStore == <<"F","r","e","s","h"," ","S","t","o","r","e">>
\* title case, no store word
V_Fresh == <<"F","r","e","s","h">>
\* capitals, two letters only
V_AB == <<"A","B">>
\* dashes and a bar around the name, two spaces inside
V_Dash == <<"-"," ","f","r","e","s","h"," "," ","f","o","o","d","s"," ","|">>
\* an address
V_Street == <<"1","2"," ","M","a","i","n"," ","S","t","r","e","e","t">>
\* the tax number
V_Gst == <<"G","S","T","I","N",":"," ","2","9","A","Z","5">>
\* a total
V_Total == <<"T","o","t","a","l"," ","4","5",".","0","0">>
\* a labelled number of 10 digits
V_Ph10 == <<"P","h",":"," ","9","8","7","6","5"," ","4","3","2","1","0">>
\* 12 digits beginning with 91, no label
V_Plus91 == <<"+","9","1","-","9","8","7","6","5","-","4","3","2","1","0">>
\* 11 digits beginning with 1
V_Tel1 == <<"T","e","l"," ","1","2","0","2","5","5","5","0","1","2","3">>
\* 11 digits beginning with 0
V_Mob0 == <<"M","o","b",":"," ","0","9","8","7","6","5","4","3","2","1","0">>
\* 7 digits
V_Ph7 == <<"p","h"," ","1","2","3","4","5","6","7">>
\* 13 digits beginning with 44
V_Long == <<"C","o","n","t","a","c","t"," ","4","4","9","8","7","6","5","4","3","2","1","0","1">>
\* the lines of the head of a receipt, one of them with a number
NameCorpus == {V_Shree, V_FreshMart, V_FreshStore, V_Fresh, V_AB,
               V_Dash, V_Street, V_Gst, V_Total, V_Tel1}
\* the lines with a number
PhoneCorpus == {V_Ph10, V_Plus91, V_Tel1, V_Mob0, V_Ph7, V_Long}

\* twenty lines that score 3 and a twenty-first that would score 8
RECURSIVE Repeated(_, _)
Repeated(line, n) == IF n = 0 THEN <<>> ELSE Append(Repeated(line, n - 1), line)
LongReceipt == Repeated(V_Fresh, 20) \o <<V_Shree>>

\* the receipts: at most MaxLines lines of either corpus, and the long one
VendorTexts == Texts(NameCorpus) \cup Texts(PhoneCorpus) \cup {LongReceipt}

InitVendor ==
    /\ pc = "vendor"
    /\ text \in VendorTexts
    /\ model = FALSE
    /\ lines = <<>>
    /\ idx = 1
    /\ items = <<>>
    /\ added_keys = {}
    /\ prev_non_empty = None
    /\ parsing_method = ""
    /\ ai_response = [raises |-> FALSE, candidates |-> <<>>]
    /\ result = NotReturned
    /\ cat_name = <<>>
    /\ cat_out = ""
    /\ AuxIdle

\* vendor = self.extract_vendor_info(ocr_text)
ExtractVendor ==
    /\ pc = "vendor"
    /\ vendor' = extract_vendor_info(text)
    /\ pc' = "vendor_done"
    /\ UNCHANGED <<text, model, lines, idx, items, added_keys, prev_non_empty,
                   parsing_method, ai_response, result, cat_name, cat_out,
                   item_aggregation, reaggregated, ai_breakfast_names, complementary,
                   complementary_breakdown>>

NextVendor == ExtractVendor

SpecVendor == InitVendor /\ [][NextVendor]_vars

\* ---------------------------------------------------------------------
\* C17: the vendor name

\* the name was looked for in a text that has lines
VendorDone == pc = "vendor_done" /\ VendorLines(text) /= <<>>
\* the first 20 non-empty lines with a positive score
PositiveLines(vlines, scores) == {i \in 1..top_k(vlines) : scores[i] > 0}
\* the same, among the lines with three letters or more
PositiveWordLines(vlines, scores) ==
    {i \in PositiveLines(vlines, scores) : AlphaCount(vlines[i]) >= 3}
\* line i has the highest score of the lines in among, and is the first of
\* the lines of that score
FirstHighest(scores, among, i) ==
    /\ i \in among
    /\ \A j \in among : scores[j] <= scores[i]
    /\ \A j \in among : scores[j] = scores[i] => j >= i
\* the name returned is line i, its symbols stripped, in the casing of
\* the return
ReturnsLine(vlines, i) == vendor.name = VendorName(vlines[i])
\* when there are lines in among, the name returned is the first of those
\* with the highest score
ReturnsFirstHighest(vlines, scores, among) ==
    among /= {} =>
        \E i \in among : FirstHighest(scores, among, i) /\ ReturnsLine(vlines, i)

\* C17 as stated: the name returned is the highest-scoring line among the
\* first 20 non-empty lines when that score is positive, the first of them
\* when several lines share the highest score
C17_HighestOfFirstTwenty ==
    VendorDone =>
        ReturnsFirstHighest(VendorLines(text), Scores(VendorLines(text)),
            PositiveLines(VendorLines(text), Scores(VendorLines(text))))

\* C17 amended: the name returned is the highest-scoring line among those
\* of the first 20 non-empty lines that hold three letters or more, when
\* that score is positive, the first of them when several share it
C17_HighestOfWordLines ==
    VendorDone =>
        ReturnsFirstHighest(VendorLines(text), Scores(VendorLines(text)),
            PositiveWordLines(VendorLines(text), Scores(VendorLines(text))))

\* two lines of the same highest score: the first one is returned
C17_Witness ==
    /\ pc = "vendor_done"
    /\ text = <<V_FreshStore, V_FreshMart>>
    /\ score_line(V_FreshStore) = score_line(V_FreshMart)
    /\ score_line(V_FreshStore) > 0
    /\ vendor.name = Str(V_FreshStore)

\* ---------------------------------------------------------------------
\* C18: the phone number

\* the digits of the number found in the text, <<>> when none was found
FoundDigits == DigitsOf(PhoneRaw(JoinLines(text, 1)))
\* the five cases of the normalization, in the order they are stated
StatedPhone(digits) ==
    IF Len(digits) = 10 THEN digits
    ELSE IF Len(digits) = 11 /\ digits[1] = "0" THEN Tail(digits)
    ELSE IF Len(digits) >= 12 /\ digits[1] = "9" /\ digits[2] = "1"
    THEN <<"+", "9", "1">> \o LastTen(digits)
    ELSE IF Len(digits) = 11 /\ digits[1] = "1"
    THEN <<"+", "1">> \o LastTen(digits)
    ELSE <<"+">> \o digits

\* C18: the phone returned is the digit string found, as-is when it has 10
\* digits, without its leading 0 when it has 11, '+91' and the last 10 digits
\* when it has 12 or more and begins with 91, '+1' and the last 10 digits
\* when it has 11 and begins with 1, and with '+' before it otherwise
C18_NormalizedAsStated ==
    pc = "vendor_done" /\ PhoneRaw(JoinLines(text, 1)) /= <<>> =>
        vendor.phone = Str(StatedPhone(FoundDigits))

\* 'Tel 12025550123': eleven digits beginning with 1 come back unchanged
C18_Witness ==
    /\ pc = "vendor_done"
    /\ text = <<V_Tel1>>
    /\ Len(FoundDigits) = 11
    /\ FoundDigits[1] = "1"
    /\ vendor.phone = Str(FoundDigits)

\* ---------------------------------------------------------------------
\* C19: the quantity of an item of the deterministic parser

\* the items _deterministic_parse_items has appended so far
DeterministicItems == IF pc = "deterministic" THEN items ELSE <<>>

\* C19: every item the deterministic parser emits, whatever the pattern
\* that read it, has a quantity above zero
C19_QuantityPositive ==
    \A k \in DOMAIN DeterministicItems :
       RLt(RInt(0), DeterministicItems[k]["quantity"].val)

\* 'Rice 0kg 45.00' was read by the weight pattern: the item has quantity 0
\* and is in the result returned
C19_Witness ==
    /\ pc = "done"
    /\ text = <<WeightLine(W_Rice, <<"0">>, <<"k","g">>, <<" ">>, WeightPrice.txt)>>
    /\ result.success
    /\ result.parsing_method = "deterministic"
    /\ Len(result.items) = 1
    /\ result.items[1]["quantity"] = Num(RInt(0))

\* ---------------------------------------------------------------------
\* C20: the unit of a returned item

\* the unit vocabulary of the data model
CanonicalUnits ==
    {U_kg, U_gram, U_liter, U_ml, U_pieces, U_dozen, U_packet, U_box,
     U_bottle, U_can, <<"u","n","i","t","s">>}

\* 'name - qty unit - price', a line only the regex fallback reads
UnitLine(n, qty, unit, price) ==
    n \o <<" ", "-", " ">> \o qty \o <<" ">> \o unit \o <<" ", "-", " ">> \o price
\* lines with a unit: three for the regex fallback, one for the weight
\* pattern of the deterministic parser, and a line that holds nothing
UnitLines ==
    { UnitLine(W_Oil, <<"1">>, <<"l","t","r">>, <<"4","0">>),
      UnitLine(W_Rice, <<"2">>, <<"k","g">>, <<"4","5">>),
      UnitLine(W_Milk, <<"2">>, <<"L">>, <<"3","0">>),
      WeightLine(W_Rice, <<"2">>, <<"k","g">>, <<" ">>, WeightPrice.txt),
      Blank }

InitUnits == InitWith(Texts(UnitLines))

SpecUnits == InitUnits /\ [][Next]_vars

\* C20: every item of a successful result, whichever stage produced it, has
\* a unit of the canonical vocabulary
C20_UnitCanonical ==
    pc = "done" /\ result.success =>
        \A k \in DOMAIN result.items :
           /\ result.items[k]["unit"].tag = "str"
           /\ result.items[k]["unit"].val \in CanonicalUnits

\* 'oil - 1 ltr - 40' was read by the regex fallback: the unit returned is
\* the token of the line
C20_Witness ==
    /\ pc = "done"
    /\ text = <<UnitLine(W_Oil, <<"1">>, <<"l","t","r">>, <<"4","0">>)>>
    /\ result.success
    /\ result.parsing_method = "regex_fallback"
    /\ Len(result.items) = 1
    /\ result.items[1]["unit"] = Str(<<"l","t","r">>)

----------------------------------------------------------------------------
(* Receipts of bare-triplet lines 'name a b c' (SpecTriplet) *)

\* a, b and c as printed; the last two are not accepted: 2 * 3 is not 7,
\* and a quantity of 0 is refused
TripletAmounts ==
    { [a |-> Printed(<<"2">>, RInt(2)), b |-> Printed(<<"3">>, RInt(3)),
       c |-> Printed(<<"6">>, RInt(6))],
      [a |-> Printed(<<"2">>, RInt(2)), b |-> Printed(<<"4","0">>, RInt(40)),
       c |-> Printed(<<"8","0">>, RInt(80))],
      [a |-> Printed(<<"4","0">>, RInt(40)), b |-> Printed(<<"2">>, RInt(2)),
       c |-> Printed(<<"8","0">>, RInt(80))],
      [a |-> Printed(<<"3">>, RInt(3)), b |-> Printed(<<"2">>, RInt(2)),
       c |-> Printed(<<"6">>, RInt(6))],
      [a |-> Printed(<<"2">>, RInt(2)), b |-> Printed(<<"2">>, RInt(2)),
       c |-> Printed(<<"4">>, RInt(4))],
      [a |-> Printed(<<"2","5">>, RInt(25)), b |-> Printed(<<"4","0">>, RInt(40)),
       c |-> Printed(<<"1","0","0","0">>, RInt(1000))],
      [a |-> Printed(<<"2","5">>, RInt(25)), b |-> Printed(<<"2","1">>, RInt(21)),
       c |-> Printed(<<"5","2","5">>, RInt(525))],
      [a |-> Printed(<<"2","0">>, RInt(20)), b |-> Printed(<<"2","1">>, RInt(21)),
       c |-> Printed(<<"4","2","0">>, RInt(420))],
      [a |-> Printed(<<"2","1">>, RInt(21)), b |-> Printed(<<"2","0">>, RInt(20)),
       c |-> Printed(<<"4","2","0">>, RInt(420))],
      [a |-> Printed(<<"2">>, RInt(2)), b |-> Printed(<<"3">>, RInt(3)),
       c |-> Printed(<<"7">>, RInt(7))],
      [a |-> Printed(<<"0">>, RInt(0)), b |-> Printed(<<"5">>, RInt(5)),
       c |-> Printed(<<"0">>, RInt(0))] }

TripletFamily ==
    { [a |-> t.a, b |-> t.b, c |-> t.c,
       line |-> TripletLine(W_Sugar, t.a.txt, t.b.txt, t.c.txt)] :
          t \in TripletAmounts }

TripletLines == {f.line : f \in TripletFamily} \cup {Blank}

InitTriplet == InitWith(Texts(TripletLines))

SpecTriplet == InitTriplet /\ [][Next]_vars

\* the loop is about to read a line of the family
AtTripletLine ==
    /\ pc = "deterministic"
    /\ idx <= Len(lines)
    /\ \E f \in TripletFamily : f.line = lines[idx]

TripletOf(line) == CHOOSE f \in TripletFamily : f.line = line

\* the number the rule is stated to take for the quantity
StatedQuantityIsA(a, b) ==
    IF RLe(a, RInt(20)) /\ (RLt(a, b) \/ RLt(RInt(20), b)) THEN TRUE
    ELSE IF RLe(b, RInt(20)) THEN FALSE
    ELSE TRUE

\* C21: when the bare-triplet rule accepts the numbers (a, b, c) of a line, a
\* is the quantity and b the unit price if a <= 20 and (b > a or b > 20);
\* otherwise b is the quantity and a the unit price if b <= 20; otherwise a
\* is the quantity; c is the total in every case
C21_TripletDisambiguation ==
    [][ AtTripletLine /\ Len(items') = Len(items) + 1 =>
          LET f == TripletOf(lines[idx]) IN
          /\ Last(items')["confidence"].val = Rat(8, 10)
          /\ Last(items')["total_price"].val = f.c.val
          /\ IF StatedQuantityIsA(f.a.val, f.b.val)
             THEN /\ Last(items')["quantity"].val = f.a.val
                  /\ Last(items')["unit_price"].val = f.b.val
             ELSE /\ Last(items')["quantity"].val = f.b.val
                  /\ Last(items')["unit_price"].val = f.a.val ]_vars

\* 'Sugar 25 21 525' has been read: both numbers are above 20, so the first
\* is the quantity although the second is smaller
C21_Witness ==
    /\ pc = "deterministic"
    /\ idx = 2
    /\ lines[1] = TripletLine(W_Sugar, <<"2","5">>, <<"2","1">>, <<"5","2","5">>)
    /\ Len(items) = 1
    /\ items[1]["quantity"].val = RInt(25)
    /\ items[1]["unit_price"].val = RInt(21)
    /\ items[1]["total_price"].val = RInt(525)

----------------------------------------------------------------------------
(* The order of the patterns (SpecOrder) *)

\* a line the multiplication, weight and triplet patterns all match
L_MultWeight ==
    <<"R","i","c","e"," ","2","k","g"," ","-"," ","2"," ","x"," ","3"," ","=",
      " ","6">>
\* a line the weight and triplet patterns both match
L_WeightTriplet == <<"R","i","c","e"," ","2","k","g"," ","3"," ","6">>

OrderLines ==
    { L_MultWeight,
      L_WeightTriplet,
      MultLine(W_Chicken, <<"2">>, <<"1","4","0">>, <<"2","8","0">>),
      BareMultLine(<<"2">>, <<"1","4","0">>, <<"2","8","0">>),
      W_Chicken,
      DimensionLine(<<"5">>, <<"6">>, W_Parel_Sheet, <<"1","8","0">>),
      TripletLine(W_Sugar, <<"2">>, <<"3">>, <<"6">>),
      Blank }

InitOrder == InitWith(Texts(OrderLines))

SpecOrder == InitOrder /\ [][Next]_vars

\* the loop is about to read a line
AtLine == pc = "deterministic" /\ idx <= Len(lines)

\* the first of the patterns, in their order, that takes the line
PatternOf(line, prev) ==
    IF mult_pattern(line).ok THEN "mult"
    ELSE IF /\ bare_mult_pattern(line).ok
            /\ prev /= None
            /\ \E k \in DOMAIN prev : IsAlpha(prev[k])
            /\ ~LooksLikeMult(prev)
         THEN "bare_mult"
    ELSE IF dimension_pattern(line).ok THEN "dimension"
    ELSE IF weight_pattern(line).ok THEN "weight"
    ELSE "triplet"

\* the confidence each pattern gives its item
ConfidenceOf(pattern) ==
    CASE pattern = "mult" -> Rat(95, 100)
      [] pattern = "bare_mult" -> Rat(9, 10)
      [] pattern = "dimension" -> Rat(9, 10)
      [] pattern = "weight" -> Rat(85, 100)
      [] pattern = "triplet" -> Rat(8, 10)

\* the line about to be read stands earlier in the text as well
ReadBefore == \E j \in 1..(idx - 1) : lines[j] = lines[idx]

\* C22: a line is tried against the patterns in the order named
\* multiplication, bare multiplication, dimension, weight, triplet and its
\* processing stops at the first that matches: the line adds at most one
\* item, that item is the one of the first matching pattern, and a line whose
\* item deduplication suppresses adds nothing through a later pattern
C22_FirstMatchOnly ==
    [][ AtLine =>
          /\ Len(items') <= Len(items) + 1
          /\ Len(items') = Len(items) + 1 =>
                /\ items' = Append(items, Last(items'))
                /\ Last(items')["confidence"].val =
                      ConfidenceOf(PatternOf(NormalizeLine(lines[idx]), prev_non_empty))
          /\ ReadBefore => items' = items ]_vars

\* 'Rice 2kg - 2 x 3 = 6' twice: the first gave the item of the
\* multiplication pattern, the second gave nothing
C22_Witness ==
    /\ pc = "deterministic"
    /\ lines = <<L_MultWeight, L_MultWeight>>
    /\ idx = 3
    /\ Len(items) = 1
    /\ items[1]["confidence"].val = Rat(95, 100)
    /\ items[1]["quantity"].val = RInt(2)
    /\ items[1]["unit_price"].val = RInt(3)

----------------------------------------------------------------------------
(* The pending description of the deterministic parser *)

\* a line the loop does not pass over: three characters or more once
\* normalised, no skip keyword at its start
IsCandidate(raw_line) ==
    Len(NormalizeLine(raw_line)) >= 3 /\ ~skip_line(NormalizeLine(raw_line))
\* the candidate lines already read
CandidatesRead == {j \in 1..(idx - 1) : IsCandidate(lines[j])}
\* the last of them
LastCandidateRead == CHOOSE j \in CandidatesRead : \A i \in CandidatesRead : i <= j
\* a line fit to name a bare multiplication: it has a letter and is no
\* multiplication itself
IsDescription(raw_line) ==
    /\ \E k \in DOMAIN raw_line : IsAlpha(raw_line[k])
    /\ ~LooksLikeMult(raw_line)

\* C23: the last-description slot is empty or holds the candidate line read
\* last, and it holds that line whenever the line is a description no
\* multiplication has consumed; so a description names one bare
\* multiplication at most
C23_SlotIsPrecedingLine ==
    pc = "deterministic" =>
        IF CandidatesRead = {} THEN prev_non_empty = None
        ELSE /\ prev_non_empty \in {None, lines[LastCandidateRead]}
             /\ IsDescription(lines[LastCandidateRead])
                   => prev_non_empty = lines[LastCandidateRead]

\* the description 'Chicken' has been read and the slot is still empty
C23_Witness ==
    /\ pc = "deterministic"
    /\ idx = 2
    /\ lines[1] = W_Chicken
    /\ IsCandidate(lines[1])
    /\ IsDescription(lines[1])
    /\ prev_non_empty = None

----------------------------------------------------------------------------
(* Lines that name no item: dates, separators, amounts (SpecSkip) *)

L_Date_05_04_20 == <<"0","5","/","0","4","/","2","0">>
L_Date_4_5_20 == <<"4","-","5","-","2","0">>
L_Date_12_05_2024 == <<"1","2","-","0","5","-","2","0","2","4">>
L_Dashes == <<"-","-","-","-","-">>
L_Underscores == <<"_","_","_","_","_">>
L_Number == <<"2","8","0">>
L_Amount == <<"$","2","8","0",".","0","0">>

SkipShapedLines ==
    { L_Date_05_04_20, L_Date_4_5_20, L_Date_12_05_2024, L_Dashes,
      L_Underscores, L_Number, L_Amount,
      TripletLine(W_Sugar, <<"2">>, <<"3">>, <<"6">>),
      Blank }

InitSkip == InitWith(Texts(SkipShapedLines))

SpecSkip == InitSkip /\ [][Next]_vars

\* digits, then '/' or '-', digits, the same sign again, digits
IsDateToken(line) ==
    \E i, j \in 2..(Len(line) - 1) :
       /\ i + 1 < j
       /\ line[i] \in {"/", "-"}
       /\ line[j] = line[i]
       /\ \A k \in DOMAIN line : k \notin {i, j} => IsDigit(line[k])
\* a run of dashes or of underscores
IsSeparatorRun(line) ==
    line /= <<>> /\ \E c \in {"-", "_"} : \A k \in DOMAIN line : line[k] = c
\* one number, with or without decimals, and no letter
IsBareAmount(line) == NumEnd(line, 1) = Len(line) + 1
\* the normalised line is of one of the three shapes
IsSkipShaped(raw_line) ==
    \/ IsDateToken(NormalizeLine(raw_line))
    \/ IsSeparatorRun(NormalizeLine(raw_line))
    \/ IsBareAmount(NormalizeLine(raw_line))

\* C24: a normalised line that is only a date token, only a run of dashes or
\* underscores, or only a number or amount without letters gives no item in
\* the deterministic parser
C24_SkipShapedGivesNothing ==
    [][ AtLine /\ IsSkipShaped(lines[idx]) => items' = items ]_vars

\* the date '05/04/20' has been read and has given an item: 4 at 5 for 20
C24_Witness ==
    /\ pc = "deterministic"
    /\ idx = 2
    /\ lines[1] = L_Date_05_04_20
    /\ IsDateToken(NormalizeLine(lines[1]))
    /\ Len(items) = 1
    /\ items[1]["quantity"].val = RInt(4)
    /\ items[1]["unit_price"].val = RInt(5)
    /\ items[1]["total_price"].val = RInt(20)

----------------------------------------------------------------------------
(* The two passes of the categorizer (SpecCat) *)

\* a keyword of the c-th category holds the name or is held by it
DirectIn(c, item_lower) ==
    \E k \in DOMAIN categories[c].keywords :
       \/ Contains(item_lower, categories[c].keywords[k])
       \/ Contains(categories[c].keywords[k], item_lower)
\* a word of a keyword of the c-th category stands in the name, or a word
\* of the name stands in the keyword
FuzzyIn(c, item_lower) ==
    \E k \in DOMAIN categories[c].keywords :
       \/ \E part \in Range(Split(categories[c].keywords[k])) :
             Contains(item_lower, part)
       \/ \E part \in Range(Split(item_lower)) :
             Contains(categories[c].keywords[k], part)
DirectCategories(item_lower) == {c \in DOMAIN categories : DirectIn(c, item_lower)}
FuzzyCategories(item_lower) == {c \in DOMAIN categories : FuzzyIn(c, item_lower)}
\* the category that comes first in the table among those of a set
FirstInTable(cs) == categories[CHOOSE c \in cs : \A d \in cs : c <= d].category

\* the category the two passes are stated to give
StatedCategory(item_lower) ==
    IF DirectCategories(item_lower) /= {}
    THEN FirstInTable(DirectCategories(item_lower))
    ELSE IF FuzzyCategories(item_lower) /= {}
    THEN FirstInTable(FuzzyCategories(item_lower))
    ELSE "other"

\* C25: the categorizer gives the first category of the table with a direct
\* containment match; when no category has one, the first category of the
\* table with a fuzzy word-overlap match; 'other' when neither pass matches.
\* A direct match thus beats a fuzzy match in an earlier category.
C25_TwoPasses ==
    pc = "categorized" => cat_out = StatedCategory(Lower(cat_name))

\* 'Ice Tea': 'ice' stands in 'rice' (grains_bakery, fuzzy) and 'tea' is a
\* keyword of the later category beverages (direct): beverages is returned
C25_Witness ==
    /\ pc = "categorized"
    /\ cat_name = W_Ice \o <<" ">> \o W_Tea
    /\ \E c \in FuzzyCategories(Lower(cat_name)) :
          \A d \in DirectCategories(Lower(cat_name)) : c < d
    /\ DirectCategories(Lower(cat_name)) /= {}
    /\ cat_out = "beverages"

----------------------------------------------------------------------------
(* What _enhance_item fills in (Spec) *)

\* the candidate supplies no value under the key: it is missing or null
NoValue(c, f) == ~Has(c, f) \/ c[f] = Null

\* the candidates of an answer that pass the validator, in order
AcceptedCandidates(cands) == SelectSeq(cands, _validate_enhanced_item)

\* the enhanced record of candidate c carries the stated fill-ins
BackfilledAsStated(c, item) ==
    /\ NoValue(c, "category")
          => /\ item["category"] = Str(_categorize_item(item["item_name"].val))
             /\ item["category"].val \in CategoryVocabulary
    /\ ~Has(c, "confidence") => item["confidence"] = Num(Rat(8, 10))
    /\ NoValue(c, "total_price")
          => item["total_price"]
                = Num(RMul(item["quantity"].val, item["unit_price"].val))
    /\ Has(item, "estimated_expiry")
    /\ item["estimated_expiry"].tag = "date"

\* C26: every accepted candidate, after _enhance_item, has its category
\* filled from the categorizer with a vocabulary value when it supplied none
\* (key missing or null), confidence 0.8 when it supplied none, total_price =
\* quantity * unit_price when it supplied none (missing or null), and an
\* estimated_expiry in every case.
C26_EnhanceBackfills ==
    [][ (pc = "ai" /\ ~GeminiRaises(ai_response'))
        => /\ Len(items') = Len(AcceptedCandidates(ai_response'.candidates))
           /\ \A k \in DOMAIN items' :
                 BackfilledAsStated(AcceptedCandidates(ai_response'.candidates)[k],
                                    items'[k]) ]_vars

\* a candidate with  category: null  was accepted and enhanced, and its
\* category is still null; its expiry is the default of an unknown category
C26_Witness ==
    /\ pc = "summary"
    /\ parsing_method = "gemini_ai"
    /\ Len(ai_response.candidates) = 1
    /\ _validate_enhanced_item(ai_response.candidates[1])
    /\ Has(ai_response.candidates[1], "category")
    /\ ai_response.candidates[1]["category"] = Null
    /\ Len(items) = 1
    /\ items[1]["category"] = Null
    /\ items[1]["estimated_expiry"].days = 30

----------------------------------------------------------------------------
(* The stage parse_receipt takes its items from (SpecUnits) *)

\* the items of the loop of _deterministic_parse_items from line k on
RECURSIVE DeterministicFrom(_, _, _, _)
DeterministicFrom(ls, k, keys, prev) ==
    IF k > Len(ls) THEN <<>>
    ELSE Bind(ParseLine(ls[k], keys, prev), LAMBDA o :
              o.emit \o DeterministicFrom(ls, k + 1, o.keys, o.prev))
_deterministic_parse_items(raw_lines) ==
    DeterministicFrom(StrippedLines(raw_lines), 1, {}, None)

\* the stages are over: the statistics are next, or parse_receipt returned
StagesOver == pc \in {"summary", "done"}

\* the items and method parse_receipt holds are those of one stage, chosen
\* in order, given what the first two stages find in the text
OneStage(det, fb) ==
    /\ pc = "ai" => model /\ det = <<>> /\ fb = <<>> /\ items = <<>>
    /\ StagesOver /\ det /= <<>>
          => items = det /\ parsing_method = "deterministic"
    /\ StagesOver /\ det = <<>> /\ fb /= <<>>
          => items = fb /\ parsing_method = "regex_fallback"
    /\ StagesOver /\ parsing_method = "gemini_ai"
          => /\ det = <<>> /\ fb = <<>> /\ model
             /\ ~GeminiRaises(ai_response)
             /\ items /= <<>>
             /\ items = ValidatedFrom(ai_response.candidates, 1)
             /\ Len(items) = Len(AcceptedCandidates(ai_response.candidates))
    /\ StagesOver /\ det = <<>> /\ fb = <<>> /\ parsing_method /= "gemini_ai"
          => items = <<>> /\ parsing_method = "regex_fallback"
    /\ pc = "done" /\ result.success
          => result.items = items /\ result.parsing_method = parsing_method

\* C27: parse_receipt uses the items of exactly one stage: those of the
\* deterministic parser if it found any, else those of the regex fallback if
\* it found any; the AI is asked only when both found nothing and a model is
\* configured; parsing_method is 'gemini_ai' only when the returned items are
\* the enhanced AI candidates that passed the validator.
C27_OneStageOnly ==
    (pc \in {"ai", "summary", "done"})
    => OneStage(_deterministic_parse_items(text), _enhanced_fallback_parse(text))

\* parse_receipt returned the one accepted candidate of an AI answer of two,
\* for a text of two blank lines, in which the first two stages found nothing
C27_Witness ==
    /\ pc = "done"
    /\ text = <<Blank, Blank>>
    /\ model
    /\ result.success
    /\ result.parsing_method = "gemini_ai"
    /\ Len(ai_response.candidates) = 2
    /\ Len(result.items) = 1
    /\ result.items[1]["item_name"].val = W_Rice

----------------------------------------------------------------------------
(* The name of an accepted candidate after cleaning (Spec) *)

\* the items are the enhanced accepted candidates of the AI answer
AiItemsHeld == pc \in {"summary", "done"} /\ parsing_method = "gemini_ai"

\* C28: every AI candidate accepted by _validate_enhanced_item still has a
\* non-empty item_name after the name cleaning of _enhance_item.
C28_CleanedNameNonEmpty ==
    AiItemsHeld => \A k \in DOMAIN items : items[k]["item_name"].val /= <<>>

\* the candidate named 'Kg' passed the validator, and the name of its
\* enhanced item is empty
C28_Witness ==
    /\ AiItemsHeld
    /\ Len(ai_response.candidates) = 1
    /\ ai_response.candidates[1]["item_name"] = Str(<<"K","g">>)
    /\ _validate_enhanced_item(ai_response.candidates[1])
    /\ Len(items) = 1
    /\ items[1]["item_name"] = Str(<<>>)

----------------------------------------------------------------------------
(* The summary of parse_receipt (Spec) *)

\* the sum of the counts, and of the values, of the categories of a set
RECURSIVE SumCounts(_, _)
SumCounts(cats, cs) ==
    IF cs = {} THEN 0
    ELSE Bind(CHOOSE c \in cs : TRUE, LAMBDA c :
              cats[c].count + SumCounts(cats, cs \ {c}))
RECURSIVE SumValues(_, _)
SumValues(cats, cs) ==
    IF cs = {} THEN RInt(0)
    ELSE Bind(CHOOSE c \in cs : TRUE, LAMBDA c :
              RAdd(cats[c].total_value, SumValues(cats, cs \ {c})))

\* the items of its that lack a category
LackCategory(its) == {k \in DOMAIN its : NoValue(its[k], "category")}

\* the summary agrees with the items
SummaryAgrees(its, summary) ==
    /\ summary.total_items = Len(its)
    /\ SumCounts(summary.categories, DOMAIN summary.categories) = summary.total_items
    /\ SumValues(summary.categories, DOMAIN summary.categories)
          = total_amount(its, Len(its))
    /\ LackCategory(its) /= {}
          => /\ Str("other") \in DOMAIN summary.categories
             /\ summary.categories[Str("other")].count >= Cardinality(LackCategory(its))

\* C29: in every successful result of parse_receipt (the texts are not
\* regional) summary.total_items is the number of items, the counts of the
\* categories sum to total_items, their total_value entries sum to the sum of
\* the items' total_price, and an item lacking a category is counted under
\* 'other'.
C29_SummaryAgrees ==
    (pc = "done" /\ result.success) => SummaryAgrees(result.items, result.summary)

\* a successful result whose one item has a null category: the summary
\* counts it under the key null, and has no 'other'
C29_Witness ==
    /\ pc = "done"
    /\ result.success
    /\ Len(result.items) = 1
    /\ result.items[1]["category"] = Null
    /\ result.summary.total_items = 1
    /\ DOMAIN result.summary.categories = {Null}
    /\ result.summary.categories[Null].count = 1

----------------------------------------------------------------------------
(* The breakdown of the complementary items (SpecSales) *)

\* the sum of the quantities of a breakdown
BreakdownTotal(breakdown) == SumInt(breakdown, DOMAIN breakdown)

\* C30: for the same item list and the same set of breakfast names, the
\* quantities of complementary_breakdown sum to the value of each counter of
\* complementary_items, with names given (AI-name mode) and with none
\* (keyword mode, also that of the report fallback_parsing returns).
C30_BreakdownSumsToCounters ==
    /\ pc \in {"report", "reaggregated", "complementary"}
          => FourCounters(result.complementary_items,
                          BreakdownTotal(result.complementary_breakdown))
    /\ pc = "complementary"
          => FourCounters(complementary, BreakdownTotal(complementary_breakdown))

\* a report of two plates of Dosa and three cups of Tea: the keywords give
\* Dosa: 2, the name set {Tea} gives Tea: 3, and the counters are 2 and 3
C30_Witness ==
    /\ pc = "complementary"
    /\ text = <<H_Summary, R1, R4>>
    /\ ai_breakfast_names = {W_Tea}
    /\ DOMAIN complementary_breakdown = {W_Tea}
    /\ complementary_breakdown[W_Tea] = 3
    /\ FourCounters(complementary, 3)
    /\ DOMAIN result.complementary_breakdown = {W_Dosa}
    /\ result.complementary_breakdown[W_Dosa] = 2
    /\ FourCounters(result.complementary_items, 2)

====
